---- MODULE Spec2Model ----
(***************************************************************************)
(* A model of MemAi's client-side data-collection and synchronisation      *)
(* layer: the photo, calendar and location collectors (src/hooks), and the *)
(* conversation surface's local cache, merge and completion retry          *)
(* (ChatScreen, src/unnamed/part_001).                                     *)
(*                                                                         *)
(* Every asynchronous function of the source is a process whose program    *)
(* counter moves from one await to the next; what runs between two awaits  *)
(* is one atomic action (the event loop is single-threaded).  The remote   *)
(* store, the permission system, the connectivity probe and the backends   *)
(* are the environment: their answers are chosen nondeterministically.     *)
(*                                                                         *)
(* Each subsystem has its own specification (SpecPhoto, SpecCalendar, ...) *)
(* over the same variables; the variables of the other subsystems keep     *)
(* their initial values under it.                                          *)
(***************************************************************************)
EXTENDS Integers, Sequences, FiniteSets, TLC

VARIABLES
  \* ---- environment
  platform,        \* Platform.OS: "native" or "web"
  session,         \* TRUE iff supabase.auth has a signed-in user
  connected,       \* NetInfo's isConnected
  \* ---- Photo Collector (usePhotoSync)
  photoEnabled,    \* [PhotoInst -> BOOLEAN]  the hook's `enabled` argument
  photoMounted,    \* [PhotoInst -> BOOLEAN]  the owning component is mounted
  photoError,      \* [PhotoInst -> error string or NoError]  useState error
  photoTimer,      \* [PhotoInst -> BOOLEAN]  syncInterval is set
  photoCycle,      \* [1..MaxPhotoCycles -> cycle record]  syncPhotos calls
  photoStarted,    \* number of syncPhotos calls so far
  photoPerm,       \* OS permission state for the photo library
  photoLogs,       \* [Uris -> Nat]  rows of photo_logs per file_uri
  \* ---- Calendar Collector (useCalendarSync)
  calEnabled,      \* [CalInst -> BOOLEAN]  the hook's `enabled` argument
  calMounted,      \* [CalInst -> BOOLEAN]  the owning component is mounted
  calError,        \* [CalInst -> error string or NoError]  useState error
  calTimer,        \* [CalInst -> BOOLEAN]  syncInterval is set
  calCycle,        \* [1..MaxCalCycles -> cycle record]  syncCalendar calls
  calStarted,      \* number of syncCalendar calls so far
  calPerm,         \* OS permission state for calendars
  calendarEvents,  \* [EventKeys -> Nat]  rows of calendar_events per dedup key
  \* ---- Location Collector (useLocationTracking)
  locLife,         \* [LocInst -> "none" | "mounted" | "unmounted"]  the owning component
  locEnabled,      \* [LocInst -> BOOLEAN]  the hook's `enabled` argument
  locError,        \* [LocInst -> error string or NoError]  useState error
  locSubRef,       \* [LocInst -> 0 or the start call whose subscription
                   \*  locationSubscription.current holds]
  locWatching,     \* start calls whose foreground subscription is active
  bgRegistered,    \* the background task has location updates registered
  locFgPerm,       \* OS foreground location permission
  locBgPerm,       \* OS background location permission
  locStart,        \* [1..MaxLocStarts -> record]  startLocationTracking calls
  locStarted,      \* number of startLocationTracking calls so far
  locStop,         \* [1..MaxLocStops -> record]  stopLocationTracking calls
                   \* and the unmount cleanup's stopLocationUpdatesAsync
  locStopped,      \* number of those so far
  locSample,       \* [1..MaxSamples -> record]  deliveries of a location sample
  locSampled,      \* number of samples delivered so far
  locations,       \* number of rows of the remote locations collection
  \* ---- Conversation surface (ChatScreen): local cache and sync
  messages,        \* the in-memory message list (useState)
  lastOp,          \* which setMessages wrote `messages` last
  cacheFile,       \* content of the local cache file, or NoFile
  remoteMessages,  \* rows of the remote messages table (primary key id)
  chatError,       \* useState error
  isOffline,       \* useState isOffline
  cacheCall,       \* sequence of cacheChatMessages calls
  loadCall,        \* [1..MaxLoads -> record]  loadCachedMessages calls
  loadStarted,     \* number of loadCachedMessages calls so far
  \* ---- Conversation surface (ChatScreen): sending
  now,             \* the clock, in milliseconds (Date.now())
  input,           \* useState input
  selectedMedia,   \* useState selectedMedia: the uri picked, or NoMedia
  captured,        \* the `messages` the memoized handleSend closes over
  loading,         \* useState loading
  isTyping,        \* useState isTyping
  sendCall,        \* [1..MaxSends -> record]  handleSend calls
  sendStarted,     \* number of handleSend calls so far
  \* ---- Coordinator (useDataCollection)
  coLife,          \* "none" | "mounted" | "unmounted": the owning component
  coEnabled,       \* useState enabled
  coError,         \* useState error: the messages joined by ', ' (<<>>: null)
  coSeen,          \* the dependencies of the error effect at its last run
  coCheck,         \* the checkBackgroundLogging call (failed: its catch ran)
  coSets,          \* number of setEnabled calls so far
  userPref,        \* the user's row of the users table
  settingsLoad     \* the Settings screen's loadUserSettings call

envVars   == <<platform, session, connected>>
photoVars == <<photoEnabled, photoMounted, photoError, photoTimer, photoCycle,
               photoStarted, photoPerm, photoLogs>>
calVars   == <<calEnabled, calMounted, calError, calTimer, calCycle,
               calStarted, calPerm, calendarEvents>>
locVars   == <<locLife, locEnabled, locError, locSubRef, locWatching, bgRegistered,
               locFgPerm, locBgPerm, locStart, locStarted, locStop, locStopped,
               locSample, locSampled, locations>>
cacheVars == <<messages, lastOp, cacheFile, remoteMessages, chatError, isOffline,
               cacheCall, loadCall, loadStarted>>
sendVars  == <<now, input, selectedMedia, captured, loading, isTyping,
               sendCall, sendStarted>>
chatVars  == <<cacheVars, sendVars>>
coVars    == <<coLife, coEnabled, coError, coSeen, coCheck, coSets, userPref,
               settingsLoad>>
vars      == <<envVars, photoVars, calVars, locVars, chatVars, coVars>>

\* What the actions of one subsystem leave alone.
photoFrame == <<envVars, calVars, locVars, chatVars, coVars>>
calFrame   == <<envVars, photoVars, locVars, chatVars, coVars>>
locFrame   == <<platform, session, photoVars, calVars, chatVars, coVars>>
cacheFrame == <<platform, session, photoVars, calVars, locVars, sendVars, coVars>>
sendFrame  == <<platform, session, photoVars, calVars, locVars, coVars,
                cacheFile, remoteMessages, loadCall, loadStarted>>

NoError == "null"

-----------------------------------------------------------------------------
(* Environment                                                             *)

Platforms == {"native", "web"}
PermStates == {"undetermined", "granted", "denied"}

\* What a permission request answers in OS state `p`: an undetermined
\* permission prompts the user, who grants, denies or dismisses the prompt; a
\* decided one answers as decided.
RequestOutcomes(p) == IF p = "undetermined" THEN PermStates ELSE {p}

EnvInit ==
  /\ platform \in Platforms
  /\ session \in BOOLEAN
  /\ connected \in BOOLEAN

-----------------------------------------------------------------------------
(* Photo Collector: src/hooks/usePhotoSync.ts                              *)

\* The two mounted instances: the Coordinator's (useDataCollection) and the
\* Settings screen's own.
PhotoInst == {"coordinator", "settings"}

MaxPhotoCycles == 2

\* Assets of the device library created today, in library order.
Uris == {"u1", "u2"}
PhotoLibrary == <<[uri |-> "u1", location |-> TRUE], [uri |-> "u2", location |-> FALSE]>>

\* first: 50
PhotoPageSize == 50

PhotoIdle == [inst |-> "coordinator", pc |-> "idle", assets |-> <<>>, k |-> 0]

PhotoInit ==
  /\ photoEnabled = [i \in PhotoInst |-> FALSE]
  /\ photoMounted = [i \in PhotoInst |-> TRUE]
  /\ photoError = [i \in PhotoInst |-> NoError]
  /\ photoTimer = [i \in PhotoInst |-> FALSE]
  /\ photoCycle = [c \in 1..MaxPhotoCycles |-> PhotoIdle]
  /\ photoStarted = 0
  /\ photoPerm \in PermStates
  /\ photoLogs = [u \in Uris |-> 0]

\* syncPhotos() is called: its synchronous prefix runs up to the first await.
\* On web it returns at once; otherwise it awaits the permission request.
PhotoCallSync(i) ==
  [photoCycle EXCEPT ![photoStarted + 1] =
     [inst |-> i, pc |-> IF platform = "web" THEN "done" ELSE "perm",
      assets |-> <<>>, k |-> 0]]

\* (mutant) disabling clears the error, as the location hook does.
PhotoEnabledEffectClearsError(i, b) ==
  /\ photoMounted[i]
  /\ photoEnabled[i] # b
  /\ photoEnabled' = [photoEnabled EXCEPT ![i] = b]
  /\ IF b
       THEN /\ photoStarted < MaxPhotoCycles
            /\ photoCycle' = PhotoCallSync(i)
            /\ photoStarted' = photoStarted + 1
            /\ photoTimer' = [photoTimer EXCEPT ![i] = TRUE]
            /\ UNCHANGED photoError
       ELSE /\ photoTimer' = [photoTimer EXCEPT ![i] = FALSE]
            /\ photoError' = [photoError EXCEPT ![i] = NoError]
            /\ UNCHANGED <<photoCycle, photoStarted>>
  /\ UNCHANGED <<photoMounted, photoPerm, photoLogs>>

\* The effect on [enabled]: the previous effect's cleanup clears the interval,
\* then, when enabled, one sync starts at once and the interval is set.
PhotoEnabledEffect(i, b) ==
  /\ photoMounted[i]
  /\ photoEnabled[i] # b
  /\ photoEnabled' = [photoEnabled EXCEPT ![i] = b]
  /\ IF b
       THEN /\ photoStarted < MaxPhotoCycles
            /\ photoCycle' = PhotoCallSync(i)
            /\ photoStarted' = photoStarted + 1
            /\ photoTimer' = [photoTimer EXCEPT ![i] = TRUE]
       ELSE /\ photoTimer' = [photoTimer EXCEPT ![i] = FALSE]
            /\ UNCHANGED <<photoCycle, photoStarted>>
  /\ UNCHANGED <<photoMounted, photoError, photoPerm, photoLogs>>

\* The caller renders with another `enabled`.
PhotoSetEnabled(i, b) == PhotoEnabledEffect(i, b) /\ UNCHANGED photoFrame

\* setInterval(syncPhotos, SYNC_INTERVAL) fires.
PhotoTick(i) ==
  /\ photoTimer[i]
  /\ photoStarted < MaxPhotoCycles
  /\ photoCycle' = PhotoCallSync(i)
  /\ photoStarted' = photoStarted + 1
  /\ UNCHANGED <<photoEnabled, photoMounted, photoError, photoTimer, photoPerm,
                 photoLogs, photoFrame>>

\* (mutant) the cleanup leaves the interval set.
PhotoUnmountKeepsTimer(i) ==
  /\ photoMounted[i]
  /\ photoMounted' = [photoMounted EXCEPT ![i] = FALSE]
  /\ UNCHANGED <<photoEnabled, photoError, photoTimer, photoCycle, photoStarted,
                 photoPerm, photoLogs>>

\* The owning component is torn down: the effect's cleanup clears the interval.
PhotoUnmountEffect(i) ==
  /\ photoMounted[i]
  /\ photoMounted' = [photoMounted EXCEPT ![i] = FALSE]
  /\ photoTimer' = [photoTimer EXCEPT ![i] = FALSE]
  /\ UNCHANGED <<photoEnabled, photoError, photoCycle, photoStarted, photoPerm, photoLogs>>

PhotoUnmount(i) == PhotoUnmountEffect(i) /\ UNCHANGED photoFrame

\* setError(msg) of the instance that runs cycle c (not guarded by a mounted flag).
PhotoSetError(c, msg) == [photoError EXCEPT ![photoCycle[c].inst] = msg]

PhotoGoto(c, pc) == [photoCycle EXCEPT ![c].pc = pc]

\* (mutant) a refused photo permission also sets the calendar's error.
PhotoPermissionHaltsCalendar(c) ==
  /\ photoCycle[c].pc = "perm"
  /\ \E status \in RequestOutcomes(photoPerm) :
       /\ photoPerm' = status
       /\ IF status # "granted"
            THEN /\ photoError' = PhotoSetError(c, "Permission to access photos was denied")
                 /\ calError' = [i \in DOMAIN calError |-> "Permission to access photos was denied"]
                 /\ photoCycle' = PhotoGoto(c, "done")
            ELSE /\ photoCycle' = PhotoGoto(c, "user")
                 /\ UNCHANGED <<photoError, calError>>
  /\ UNCHANGED <<photoEnabled, photoMounted, photoTimer, photoStarted, photoLogs,
                 envVars, locVars, chatVars, coVars,
                 calEnabled, calMounted, calTimer, calCycle, calStarted, calPerm,
                 calendarEvents>>

\* MediaLibrary.requestPermissionsAsync() resolves.
PhotoPermission(c) ==
  /\ photoCycle[c].pc = "perm"
  /\ \E status \in RequestOutcomes(photoPerm) :
       /\ photoPerm' = status
       /\ IF status # "granted"
            THEN /\ photoError' = PhotoSetError(c, "Permission to access photos was denied")
                 /\ photoCycle' = PhotoGoto(c, "done")
            ELSE /\ photoCycle' = PhotoGoto(c, "user")
                 /\ UNCHANGED photoError
  /\ UNCHANGED <<photoEnabled, photoMounted, photoTimer, photoStarted, photoLogs, photoFrame>>

\* (mutant) the poll goes on to read the library without a user.
PhotoGetUserIgnoresSession(c) ==
  /\ photoCycle[c].pc = "user"
  /\ photoCycle' = PhotoGoto(c, "assets")
  /\ UNCHANGED <<photoEnabled, photoMounted, photoError, photoTimer, photoStarted,
                 photoPerm, photoLogs, photoFrame>>

\* supabase.auth.getUser() resolves.
PhotoGetUser(c) ==
  /\ photoCycle[c].pc = "user"
  /\ photoCycle' = PhotoGoto(c, IF session THEN "assets" ELSE "done")
  /\ UNCHANGED <<photoEnabled, photoMounted, photoError, photoTimer, photoStarted,
                 photoPerm, photoLogs, photoFrame>>

PhotoPage == SubSeq(PhotoLibrary, 1, IF Len(PhotoLibrary) < PhotoPageSize
                                       THEN Len(PhotoLibrary) ELSE PhotoPageSize)

\* MediaLibrary.getAssetsAsync() resolves; the for loop reaches its first lookup.
PhotoGetAssets(c) ==
  /\ photoCycle[c].pc = "assets"
  /\ photoCycle' = [photoCycle EXCEPT ![c].assets = PhotoPage, ![c].k = 1,
                      ![c].pc = IF PhotoPage = <<>> THEN "done" ELSE "select"]
  /\ UNCHANGED <<photoEnabled, photoMounted, photoError, photoTimer, photoStarted,
                 photoPerm, photoLogs, photoFrame>>

\* The loop moves on to asset k+1, or ends after the last asset.
PhotoNextAsset(c) ==
  [photoCycle EXCEPT ![c].k = @ + 1,
                     ![c].pc = IF photoCycle[c].k < Len(photoCycle[c].assets)
                                 THEN "select" ELSE "done"]

\* What .select('id').eq('file_uri', uri).single() answers when the store
\* answers at all: the row when exactly one matches, else error PGRST116.
PhotoLookup(uri) == IF photoLogs[uri] = 1 THEN "row" ELSE "PGRST116"

\* The existence lookup resolves.  Any other store error is thrown and caught
\* by the catch, which sets the error.
PhotoSelect(c) ==
  /\ photoCycle[c].pc = "select"
  /\ LET asset == photoCycle[c].assets[photoCycle[c].k] IN
     \E answer \in {PhotoLookup(asset.uri), "error"} :
       CASE answer = "error" ->
              /\ photoError' = PhotoSetError(c, "Failed to sync photos")
              /\ photoCycle' = PhotoGoto(c, "done")
         [] answer = "row" ->
              /\ photoCycle' = PhotoNextAsset(c)
              /\ UNCHANGED photoError
         [] OTHER ->
              /\ photoCycle' = PhotoGoto(c, IF asset.location THEN "locate" ELSE "insert")
              /\ UNCHANGED photoError
  /\ UNCHANGED <<photoEnabled, photoMounted, photoTimer, photoStarted, photoPerm,
                 photoLogs, photoFrame>>

\* MediaLibrary.getLocationAsync(asset) resolves (or throws).
PhotoLocate(c) ==
  /\ photoCycle[c].pc = "locate"
  /\ \E ok \in BOOLEAN :
       IF ok
         THEN /\ photoCycle' = PhotoGoto(c, "insert")
              /\ UNCHANGED photoError
         ELSE /\ photoError' = PhotoSetError(c, "getLocationAsync failed")
              /\ photoCycle' = PhotoGoto(c, "done")
  /\ UNCHANGED <<photoEnabled, photoMounted, photoTimer, photoStarted, photoPerm,
                 photoLogs, photoFrame>>

\* (mutant) a failed insert also takes back the rows written before it.
PhotoInsertRollsBack(c) ==
  /\ photoCycle[c].pc = "insert"
  /\ LET asset == photoCycle[c].assets[photoCycle[c].k] IN
     \E ok \in BOOLEAN :
       IF ok
         THEN /\ photoLogs' = [photoLogs EXCEPT ![asset.uri] = @ + 1]
              /\ photoCycle' = PhotoNextAsset(c)
              /\ UNCHANGED photoError
         ELSE /\ photoError' = PhotoSetError(c, "Failed to sync photos")
              /\ photoCycle' = PhotoGoto(c, "done")
              /\ photoLogs' = [u \in DOMAIN photoLogs |-> 0]
  /\ UNCHANGED <<photoEnabled, photoMounted, photoTimer, photoStarted, photoPerm, photoFrame>>

\* The insert into photo_logs resolves: a row is added, or insertError is thrown.
PhotoInsert(c) ==
  /\ photoCycle[c].pc = "insert"
  /\ LET asset == photoCycle[c].assets[photoCycle[c].k] IN
     \E ok \in BOOLEAN :
       IF ok
         THEN /\ photoLogs' = [photoLogs EXCEPT ![asset.uri] = @ + 1]
              /\ photoCycle' = PhotoNextAsset(c)
              /\ UNCHANGED photoError
         ELSE /\ photoError' = PhotoSetError(c, "Failed to sync photos")
              /\ photoCycle' = PhotoGoto(c, "done")
              /\ UNCHANGED photoLogs
  /\ UNCHANGED <<photoEnabled, photoMounted, photoTimer, photoStarted, photoPerm, photoFrame>>

PhotoNext ==
  \/ \E i \in PhotoInst, b \in BOOLEAN : PhotoSetEnabled(i, b)
  \/ \E i \in PhotoInst : PhotoTick(i)
  \/ \E i \in PhotoInst : PhotoUnmount(i)
  \/ \E c \in 1..MaxPhotoCycles : PhotoPermission(c)
  \/ \E c \in 1..MaxPhotoCycles : PhotoGetUser(c)
  \/ \E c \in 1..MaxPhotoCycles : PhotoGetAssets(c)
  \/ \E c \in 1..MaxPhotoCycles : PhotoSelect(c)
  \/ \E c \in 1..MaxPhotoCycles : PhotoLocate(c)
  \/ \E c \in 1..MaxPhotoCycles : PhotoInsert(c)

-----------------------------------------------------------------------------
(* Calendar Collector: src/hooks/useCalendarSync.ts                        *)

CalInst == {"coordinator", "settings"}

MaxCalCycles == 2

\* The poll's window: startDate 00:00:00.000 and endDate 23:59:59.999 of
\* today, in hours since local midnight.
StartOfToday == 0
EndOfToday == 24

\* The device's calendars.  The same meeting sits in two calendars; a
\* read-only calendar and an event of tomorrow are there to be filtered out.
Standup  == [title |-> "standup", startDate |-> 9, endDate |-> 10]
Lunch    == [title |-> "lunch", startDate |-> 12, endDate |-> 13]
Holiday  == [title |-> "holiday", startDate |-> 0, endDate |-> 24]
Tomorrow == [title |-> "standup", startDate |-> 33, endDate |-> 34]
DeviceCalendars ==
  << [id |-> "work", allowsModifications |-> TRUE, events |-> <<Standup, Tomorrow>>],
     [id |-> "bank", allowsModifications |-> FALSE, events |-> <<Holiday>>],
     [id |-> "home", allowsModifications |-> TRUE, events |-> <<Standup, Lunch>>] >>

\* The dedup key of a row: (title, start_time, end_time).
EventKey(e) == <<e.title, e.startDate, e.endDate>>
EventKeys == {EventKey(e) : e \in {Standup, Lunch, Holiday, Tomorrow}}

RECURSIVE Filter(_, _)
\* seq.filter(keep), with keep a set of the elements to keep
Filter(seq, keep) ==
  IF seq = <<>> THEN <<>>
  ELSE IF Head(seq) \in keep THEN <<Head(seq)>> \o Filter(Tail(seq), keep)
  ELSE Filter(Tail(seq), keep)

Range(seq) == {seq[n] : n \in 1..Len(seq)}

\* calendars.filter(cal => cal.allowsModifications)
DefaultCalendars == Filter(DeviceCalendars, {cal \in Range(DeviceCalendars) : cal.allowsModifications})

\* CalendarAPI.getEventsAsync([cal.id], startDate, endDate): the calendar's
\* events that overlap the window.
EventsOf(cal) ==
  Filter(cal.events, {e \in Range(cal.events) :
                        e.startDate < EndOfToday /\ e.endDate > StartOfToday})

CalIdle == [inst |-> "coordinator", pc |-> "idle", ci |-> 0, events |-> <<>>, k |-> 0]

CalInit ==
  /\ calEnabled = [i \in CalInst |-> FALSE]
  /\ calMounted = [i \in CalInst |-> TRUE]
  /\ calError = [i \in CalInst |-> NoError]
  /\ calTimer = [i \in CalInst |-> FALSE]
  /\ calCycle = [c \in 1..MaxCalCycles |-> CalIdle]
  /\ calStarted = 0
  /\ calPerm \in PermStates
  /\ calendarEvents = [key \in EventKeys |-> 0]

\* syncCalendar() is called: on web it returns at once; otherwise it awaits
\* the permission request.
CalCallSync(i) ==
  [calCycle EXCEPT ![calStarted + 1] =
     [CalIdle EXCEPT !.inst = i, !.pc = IF platform = "web" THEN "done" ELSE "perm"]]

\* The effect on [enabled]: cleanup clears the previous interval; when
\* enabled, one sync starts at once and the interval is set.
CalEnabledEffect(i, b) ==
  /\ calMounted[i]
  /\ calEnabled[i] # b
  /\ calEnabled' = [calEnabled EXCEPT ![i] = b]
  /\ IF b
       THEN /\ calStarted < MaxCalCycles
            /\ calCycle' = CalCallSync(i)
            /\ calStarted' = calStarted + 1
            /\ calTimer' = [calTimer EXCEPT ![i] = TRUE]
       ELSE /\ calTimer' = [calTimer EXCEPT ![i] = FALSE]
            /\ UNCHANGED <<calCycle, calStarted>>
  /\ UNCHANGED <<calMounted, calError, calPerm, calendarEvents>>

\* The caller renders with another `enabled`.
CalSetEnabled(i, b) == CalEnabledEffect(i, b) /\ UNCHANGED calFrame

\* setInterval(syncCalendar, SYNC_INTERVAL) fires.
CalTick(i) ==
  /\ calTimer[i]
  /\ calStarted < MaxCalCycles
  /\ calCycle' = CalCallSync(i)
  /\ calStarted' = calStarted + 1
  /\ UNCHANGED <<calEnabled, calMounted, calError, calTimer, calPerm,
                 calendarEvents, calFrame>>

\* The owning component is torn down: the effect's cleanup clears the interval.
CalUnmountEffect(i) ==
  /\ calMounted[i]
  /\ calMounted' = [calMounted EXCEPT ![i] = FALSE]
  /\ calTimer' = [calTimer EXCEPT ![i] = FALSE]
  /\ UNCHANGED <<calEnabled, calError, calCycle, calStarted, calPerm, calendarEvents>>

CalUnmount(i) == CalUnmountEffect(i) /\ UNCHANGED calFrame

\* setError(msg) of the instance that runs cycle c (not guarded by a mounted flag).
CalSetError(c, msg) == [calError EXCEPT ![calCycle[c].inst] = msg]

CalGoto(c, pc) == [calCycle EXCEPT ![c].pc = pc]

\* CalendarAPI.requestCalendarPermissionsAsync() resolves.
CalPermission(c) ==
  /\ calCycle[c].pc = "perm"
  /\ \E status \in RequestOutcomes(calPerm) :
       /\ calPerm' = status
       /\ IF status # "granted"
            THEN /\ calError' = CalSetError(c, "Permission to access calendar was denied")
                 /\ calCycle' = CalGoto(c, "done")
            ELSE /\ calCycle' = CalGoto(c, "user")
                 /\ UNCHANGED calError
  /\ UNCHANGED <<calEnabled, calMounted, calTimer, calStarted, calendarEvents,
                 calFrame>>

\* supabase.auth.getUser() resolves.
CalGetUser(c) ==
  /\ calCycle[c].pc = "user"
  /\ calCycle' = CalGoto(c, IF session THEN "calendars" ELSE "done")
  /\ UNCHANGED <<calEnabled, calMounted, calError, calTimer, calStarted, calPerm,
                 calendarEvents, calFrame>>

\* CalendarAPI.getCalendarsAsync() resolves; the outer loop reaches its first
\* getEventsAsync.
CalGetCalendars(c) ==
  /\ calCycle[c].pc = "calendars"
  /\ calCycle' = [calCycle EXCEPT ![c].ci = 1,
                    ![c].pc = IF DefaultCalendars = <<>> THEN "done" ELSE "events"]
  /\ UNCHANGED <<calEnabled, calMounted, calError, calTimer, calStarted, calPerm,
                 calendarEvents, calFrame>>

\* After calendar ci: the outer loop fetches the next calendar's events, or ends.
CalNextCalendar(c) ==
  [calCycle EXCEPT ![c].ci = @ + 1, ![c].events = <<>>, ![c].k = 0,
                   ![c].pc = IF calCycle[c].ci < Len(DefaultCalendars)
                               THEN "events" ELSE "done"]

\* getEventsAsync() resolves for calendar ci; the inner loop reaches its
\* first lookup, or the outer loop moves on when there is no event.
CalGetEvents(c) ==
  /\ calCycle[c].pc = "events"
  /\ LET events == EventsOf(DefaultCalendars[calCycle[c].ci]) IN
       calCycle' = IF events = <<>>
                     THEN CalNextCalendar(c)
                     ELSE [calCycle EXCEPT ![c].events = events, ![c].k = 1,
                                           ![c].pc = "select"]
  /\ UNCHANGED <<calEnabled, calMounted, calError, calTimer, calStarted, calPerm,
                 calendarEvents, calFrame>>

\* The inner loop moves on to event k+1, or the outer loop to the next calendar.
CalNextEvent(c) ==
  IF calCycle[c].k < Len(calCycle[c].events)
    THEN [calCycle EXCEPT ![c].k = @ + 1, ![c].pc = "select"]
    ELSE CalNextCalendar(c)

\* What .select('id').eq('title',..).eq('start_time',..).eq('end_time',..)
\* .single() answers when the store answers at all.
CalLookup(key) == IF calendarEvents[key] = 1 THEN "row" ELSE "PGRST116"

\* The existence lookup resolves; any other store error is thrown.
CalSelect(c) ==
  /\ calCycle[c].pc = "select"
  /\ LET event == calCycle[c].events[calCycle[c].k] IN
     \E answer \in {CalLookup(EventKey(event)), "error"} :
       CASE answer = "error" ->
              /\ calError' = CalSetError(c, "Failed to sync calendar")
              /\ calCycle' = CalGoto(c, "done")
         [] answer = "row" ->
              /\ calCycle' = CalNextEvent(c)
              /\ UNCHANGED calError
         [] OTHER ->
              /\ calCycle' = CalGoto(c, "insert")
              /\ UNCHANGED calError
  /\ UNCHANGED <<calEnabled, calMounted, calTimer, calStarted, calPerm,
                 calendarEvents, calFrame>>

\* The insert into calendar_events resolves: a row is added, or insertError
\* is thrown.
CalInsert(c) ==
  /\ calCycle[c].pc = "insert"
  /\ LET event == calCycle[c].events[calCycle[c].k] IN
     \E ok \in BOOLEAN :
       IF ok
         THEN /\ calendarEvents' = [calendarEvents EXCEPT ![EventKey(event)] = @ + 1]
              /\ calCycle' = CalNextEvent(c)
              /\ UNCHANGED calError
         ELSE /\ calError' = CalSetError(c, "Failed to sync calendar")
              /\ calCycle' = CalGoto(c, "done")
              /\ UNCHANGED calendarEvents
  /\ UNCHANGED <<calEnabled, calMounted, calTimer, calStarted, calPerm, calFrame>>

CalNext ==
  \/ \E i \in CalInst, b \in BOOLEAN : CalSetEnabled(i, b)
  \/ \E i \in CalInst : CalTick(i)
  \/ \E i \in CalInst : CalUnmount(i)
  \/ \E c \in 1..MaxCalCycles : CalPermission(c)
  \/ \E c \in 1..MaxCalCycles : CalGetUser(c)
  \/ \E c \in 1..MaxCalCycles : CalGetCalendars(c)
  \/ \E c \in 1..MaxCalCycles : CalGetEvents(c)
  \/ \E c \in 1..MaxCalCycles : CalSelect(c)
  \/ \E c \in 1..MaxCalCycles : CalInsert(c)

-----------------------------------------------------------------------------
(* Location Collector: src/hooks/useLocationTracking.ts                    *)

LocInst == {"coordinator", "settings"}

MaxLocStarts == 2
MaxLocStops == 3
MaxSamples == 2

PermissionDenied == "Permission to access location was denied"
\* error instanceof Error ? error.message : 'Failed to start location tracking'
StartFailed == "Failed to start location tracking"
SaveFailed == "Failed to save location data"

\* A startLocationTracking call.  answer: what the permission request (or the
\* web permission query) answered; errSet: the call set PermissionDenied;
\* bg, fg: the call started the background updates, the foreground watcher.
LocStartIdle == [inst |-> "coordinator", pc |-> "idle", answer |-> "none",
                 errSet |-> FALSE, bg |-> FALSE, fg |-> FALSE]
LocStopIdle == [inst |-> "coordinator", pc |-> "idle"]
\* A delivered sample.  offline: connectivity was false when it was
\* delivered; insert: an insert into locations was issued for it.
LocSampleIdle == [kind |-> "none", inst |-> "coordinator", pc |-> "idle",
                  offline |-> FALSE, insert |-> FALSE]

LocInit ==
  /\ locLife = [i \in LocInst |-> "none"]
  /\ locEnabled = [i \in LocInst |-> FALSE]
  /\ locError = [i \in LocInst |-> NoError]
  /\ locSubRef = [i \in LocInst |-> 0]
  /\ locWatching = {}
  /\ bgRegistered = FALSE
  /\ locFgPerm \in PermStates
  /\ locBgPerm \in PermStates
  /\ locStart = [p \in 1..MaxLocStarts |-> LocStartIdle]
  /\ locStarted = 0
  /\ locStop = [q \in 1..MaxLocStops |-> LocStopIdle]
  /\ locStopped = 0
  /\ locSample = [s \in 1..MaxSamples |-> LocSampleIdle]
  /\ locSampled = 0
  /\ locations = 0

\* isMounted.current
IsMounted(i) == locLife[i] = "mounted"

\* if (isMounted.current) setError(msg)
LocSetError(i, msg) == IF IsMounted(i) THEN [locError EXCEPT ![i] = msg] ELSE locError

\* startLocationTracking() is called: it runs up to its first await, the
\* permission query (web) or the foreground permission request (native).
LocCallStart(i) ==
  /\ locStarted < MaxLocStarts
  /\ locStart' = [locStart EXCEPT ![locStarted + 1] =
                    [LocStartIdle EXCEPT !.inst = i,
                       !.pc = IF platform = "web" THEN "query" ELSE "fgPerm"]]
  /\ locStarted' = locStarted + 1
  /\ UNCHANGED <<locError, locSubRef, locWatching, locStop, locStopped>>

\* stopLocationTracking() is called: it removes and forgets the subscription
\* of the ref, then awaits isTaskRegisteredAsync (native); on web it goes
\* straight on to clear the error.
LocCallStop(i) ==
  /\ locStopped < MaxLocStops
  /\ locWatching' = locWatching \ {locSubRef[i]}
  /\ locSubRef' = [locSubRef EXCEPT ![i] = 0]
  /\ locStop' = [locStop EXCEPT ![locStopped + 1] =
                   [inst |-> i, pc |-> IF platform = "web" THEN "done" ELSE "isRegistered"]]
  /\ locStopped' = locStopped + 1
  /\ locError' = IF platform = "web" THEN LocSetError(i, NoError) ELSE locError
  /\ UNCHANGED <<locStart, locStarted>>

\* The component mounts: `enabled` is false on the first render of both
\* callers (useState(false)), so the [enabled] effect calls
\* stopLocationTracking(); the error is null and the ref empty at this point.
LocMountEffect(i) ==
  /\ locLife[i] = "none"
  /\ locLife' = [locLife EXCEPT ![i] = "mounted"]
  /\ LocCallStop(i)
  /\ UNCHANGED <<locEnabled, bgRegistered, locFgPerm, locBgPerm,
                 locSample, locSampled, locations>>

LocMount(i) == LocMountEffect(i) /\ UNCHANGED <<connected, locFrame>>

\* The effect on [enabled] of a mounted instance.
LocEnabledEffect(i, b) ==
  /\ IsMounted(i)
  /\ locEnabled[i] # b
  /\ locEnabled' = [locEnabled EXCEPT ![i] = b]
  /\ IF b THEN LocCallStart(i) ELSE LocCallStop(i)
  /\ UNCHANGED <<locLife, bgRegistered, locFgPerm, locBgPerm,
                 locSample, locSampled, locations>>

\* The caller renders with another `enabled`.
LocSetEnabled(i, b) == LocEnabledEffect(i, b) /\ UNCHANGED <<connected, locFrame>>

\* The component is torn down (cleanup of the [] effect): isMounted becomes
\* false, the subscription of the ref is removed, and, `enabled` being the
\* first render's false in this closure, stopLocationUpdatesAsync is called
\* without being awaited.
LocUnmountEffect(i) ==
  /\ IsMounted(i)
  /\ locStopped < MaxLocStops
  /\ locLife' = [locLife EXCEPT ![i] = "unmounted"]
  /\ locWatching' = locWatching \ {locSubRef[i]}
  /\ locStop' = [locStop EXCEPT ![locStopped + 1] = [inst |-> i, pc |-> "cleanupStop"]]
  /\ locStopped' = locStopped + 1
  /\ UNCHANGED <<locEnabled, locError, locSubRef, bgRegistered, locFgPerm, locBgPerm,
                 locStart, locStarted, locSample, locSampled, locations>>

LocUnmount(i) == LocUnmountEffect(i) /\ UNCHANGED <<connected, locFrame>>

\* (mutant) only an explicit denial stops the start.
LocAfterForegroundOnlyDenied(status) == IF status = "denied" THEN "done" ELSE "bgPerm"

\* Where startLocationTracking goes after the foreground request answered.
LocAfterForeground(status) == IF status # "granted" THEN "done" ELSE "bgPerm"

\* Location.requestForegroundPermissionsAsync() resolves (native).
LocForegroundPermission(p) ==
  /\ locStart[p].pc = "fgPerm"
  /\ \E status \in RequestOutcomes(locFgPerm) :
       LET i == locStart[p].inst
           next == LocAfterForeground(status)
           denied == next = "done"
       IN  /\ locFgPerm' = status
           /\ locError' = IF denied THEN LocSetError(i, PermissionDenied) ELSE locError
           /\ locStart' = [locStart EXCEPT ![p].pc = next, ![p].answer = status,
                             ![p].errSet = denied /\ IsMounted(i)]
  /\ UNCHANGED <<locLife, locEnabled, locSubRef, locWatching, bgRegistered, locBgPerm,
                 locStarted, locStop, locStopped, locSample, locSampled, locations,
                 connected, locFrame>>

\* Where startLocationTracking goes after the web permission query answered.
LocAfterQuery(state) == IF state = "denied" THEN "done" ELSE "watch"

\* navigator.permissions.query({name: 'geolocation'}) resolves (web); the
\* state 'prompt' is the undetermined permission.
LocWebQuery(p) ==
  /\ locStart[p].pc = "query"
  /\ LET i == locStart[p].inst
         next == LocAfterQuery(locFgPerm)
         denied == next = "done"
     IN  /\ locError' = IF denied THEN LocSetError(i, PermissionDenied) ELSE locError
         /\ locStart' = [locStart EXCEPT ![p].pc = next, ![p].answer = locFgPerm,
                           ![p].errSet = denied /\ IsMounted(i)]
  /\ UNCHANGED <<locLife, locEnabled, locSubRef, locWatching, bgRegistered, locFgPerm,
                 locBgPerm, locStarted, locStop, locStopped, locSample, locSampled,
                 locations, connected, locFrame>>

\* Location.requestBackgroundPermissionsAsync() resolves: a refusal is only
\* logged.
LocBackgroundPermission(p) ==
  /\ locStart[p].pc = "bgPerm"
  /\ \E status \in RequestOutcomes(locBgPerm) :
       /\ locBgPerm' = status
       /\ locStart' = [locStart EXCEPT ![p].pc = IF status # "granted" THEN "watch"
                                                  ELSE "startBg"]
  /\ UNCHANGED <<locLife, locEnabled, locError, locSubRef, locWatching, bgRegistered,
                 locFgPerm, locStarted, locStop, locStopped, locSample, locSampled,
                 locations, connected, locFrame>>

\* Location.startLocationUpdatesAsync(LOCATION_TASK_NAME) resolves, or throws
\* into the catch.
LocStartUpdates(p) ==
  /\ locStart[p].pc = "startBg"
  /\ \E ok \in BOOLEAN :
       IF ok
         THEN /\ bgRegistered' = TRUE
              /\ locStart' = [locStart EXCEPT ![p].pc = "watch", ![p].bg = TRUE]
              /\ UNCHANGED locError
         ELSE /\ locError' = LocSetError(locStart[p].inst, StartFailed)
              /\ locStart' = [locStart EXCEPT ![p].pc = "done"]
              /\ UNCHANGED bgRegistered
  /\ UNCHANGED <<locLife, locEnabled, locSubRef, locWatching, locFgPerm, locBgPerm,
                 locStarted, locStop, locStopped, locSample, locSampled, locations,
                 connected, locFrame>>

\* Location.watchPositionAsync() resolves and the subscription is saved in
\* the ref, or it throws into the catch.
LocWatch(p) ==
  /\ locStart[p].pc = "watch"
  /\ \E ok \in BOOLEAN :
       IF ok
         THEN /\ locWatching' = locWatching \cup {p}
              /\ locSubRef' = [locSubRef EXCEPT ![locStart[p].inst] = p]
              /\ locStart' = [locStart EXCEPT ![p].pc = "done", ![p].fg = TRUE]
              /\ UNCHANGED locError
         ELSE /\ locError' = LocSetError(locStart[p].inst, StartFailed)
              /\ locStart' = [locStart EXCEPT ![p].pc = "done"]
              /\ UNCHANGED <<locWatching, locSubRef>>
  /\ UNCHANGED <<locLife, locEnabled, bgRegistered, locFgPerm, locBgPerm,
                 locStarted, locStop, locStopped, locSample, locSampled, locations,
                 connected, locFrame>>

\* TaskManager.isTaskRegisteredAsync() resolves in stopLocationTracking.
LocStopIsRegistered(q) ==
  /\ locStop[q].pc = "isRegistered"
  /\ \E ok \in BOOLEAN :
       IF ok /\ bgRegistered
         THEN /\ locStop' = [locStop EXCEPT ![q].pc = "stopUpdates"]
              /\ UNCHANGED locError
         ELSE /\ locStop' = [locStop EXCEPT ![q].pc = "done"]
              /\ locError' = IF ok THEN LocSetError(locStop[q].inst, NoError) ELSE locError
  /\ UNCHANGED <<locLife, locEnabled, locSubRef, locWatching, bgRegistered, locFgPerm,
                 locBgPerm, locStart, locStarted, locStopped, locSample, locSampled,
                 locations, connected, locFrame>>

\* Location.stopLocationUpdatesAsync() resolves in stopLocationTracking, then
\* the error is cleared; or it throws into the catch.
LocStopUpdates(q) ==
  /\ locStop[q].pc = "stopUpdates"
  /\ \E ok \in BOOLEAN :
       /\ bgRegistered' = IF ok THEN FALSE ELSE bgRegistered
       /\ locError' = IF ok THEN LocSetError(locStop[q].inst, NoError) ELSE locError
  /\ locStop' = [locStop EXCEPT ![q].pc = "done"]
  /\ UNCHANGED <<locLife, locEnabled, locSubRef, locWatching, locFgPerm,
                 locBgPerm, locStart, locStarted, locStopped, locSample, locSampled,
                 locations, connected, locFrame>>

\* The unmount cleanup's stopLocationUpdatesAsync() resolves or rejects.
LocCleanupStop(q) ==
  /\ locStop[q].pc = "cleanupStop"
  /\ \E ok \in BOOLEAN : bgRegistered' = IF ok THEN FALSE ELSE bgRegistered
  /\ locStop' = [locStop EXCEPT ![q].pc = "done"]
  /\ UNCHANGED <<locLife, locEnabled, locError, locSubRef, locWatching, locFgPerm,
                 locBgPerm, locStart, locStarted, locStopped, locSample, locSampled,
                 locations, connected, locFrame>>

\* The background task's connectivity gate: where it goes after
\* NetInfo.fetch().
LocBackgroundGate(isConnected) == IF ~isConnected THEN "done" ELSE "user"

\* The foreground watcher's callback up to its first await: it only checks
\* isMounted, then awaits getUser.
LocForegroundGate(i, isConnected) == IF ~IsMounted(i) THEN "done" ELSE "user"

\* The OS delivers a sample to the watchPositionAsync callback of an active
\* subscription.
LocForegroundSample(p) ==
  /\ p \in locWatching
  /\ locSampled < MaxSamples
  /\ locSample' = [locSample EXCEPT ![locSampled + 1] =
                     [kind |-> "foreground", inst |-> locStart[p].inst,
                      pc |-> LocForegroundGate(locStart[p].inst, connected),
                      offline |-> ~connected, insert |-> FALSE]]
  /\ locSampled' = locSampled + 1
  /\ UNCHANGED <<locLife, locEnabled, locError, locSubRef, locWatching, bgRegistered,
                 locFgPerm, locBgPerm, locStart, locStarted, locStop, locStopped,
                 locations, connected, locFrame>>

\* The OS runs the background task: with an error or without data it
\* returns; else it reads NetInfo, whose answer is the connectivity of the
\* delivery.
LocBackgroundSample(body) ==
  /\ bgRegistered
  /\ locSampled < MaxSamples
  /\ locSample' = [locSample EXCEPT ![locSampled + 1] =
                     [kind |-> "background", inst |-> "coordinator",
                      pc |-> IF body = "locations" THEN LocBackgroundGate(connected)
                             ELSE "done",
                      offline |-> ~connected, insert |-> FALSE]]
  /\ locSampled' = locSampled + 1
  /\ UNCHANGED <<locLife, locEnabled, locError, locSubRef, locWatching, bgRegistered,
                 locFgPerm, locBgPerm, locStart, locStarted, locStop, locStopped,
                 locations, connected, locFrame>>

\* (mutant) the catch of a sample only logs.
LocSampleCatchOnlyLogs(s) == locError

\* The catch of a sample: the foreground callback sets the error when still
\* mounted; the background task only logs.
LocSampleCatch(s) ==
  IF locSample[s].kind = "foreground"
    THEN LocSetError(locSample[s].inst, SaveFailed) ELSE locError

\* supabase.auth.getUser() resolves for a sample.
LocSampleGetUser(s) ==
  /\ locSample[s].pc = "user"
  /\ locSample' = [locSample EXCEPT ![s].pc = IF session THEN "geocode" ELSE "done"]
  /\ UNCHANGED <<locLife, locEnabled, locError, locSubRef, locWatching, bgRegistered,
                 locFgPerm, locBgPerm, locStart, locStarted, locStop, locStopped,
                 locSampled, locations, connected, locFrame>>

\* Location.reverseGeocodeAsync() resolves and the insert is issued
\* (getSupabaseClient() returns the client at once), or it throws.
LocSampleGeocode(s) ==
  /\ locSample[s].pc = "geocode"
  /\ \E ok \in BOOLEAN :
       IF ok
         THEN /\ locSample' = [locSample EXCEPT ![s].pc = "insert", ![s].insert = TRUE]
              /\ UNCHANGED locError
         ELSE /\ locSample' = [locSample EXCEPT ![s].pc = "done"]
              /\ locError' = LocSampleCatch(s)
  /\ UNCHANGED <<locLife, locEnabled, locSubRef, locWatching, bgRegistered,
                 locFgPerm, locBgPerm, locStart, locStarted, locStop, locStopped,
                 locSampled, locations, connected, locFrame>>

\* The insert into locations resolves: the row is stored (only when online),
\* the store answers an error object (which the code does not look at), or
\* the request throws into the catch.
LocSampleInsert(s) ==
  /\ locSample[s].pc = "insert"
  /\ \E outcome \in (IF connected THEN {"stored"} ELSE {}) \cup {"rejected", "thrown"} :
       /\ locations' = IF outcome = "stored" THEN locations + 1 ELSE locations
       /\ locError' = IF outcome = "thrown" THEN LocSampleCatch(s) ELSE locError
  /\ locSample' = [locSample EXCEPT ![s].pc = "done"]
  /\ UNCHANGED <<locLife, locEnabled, locSubRef, locWatching, bgRegistered,
                 locFgPerm, locBgPerm, locStart, locStarted, locStop, locStopped,
                 locSampled, connected, locFrame>>

\* NetInfo: the device goes offline or comes back online.
LocConnectivityChange ==
  /\ connected' = ~connected
  /\ UNCHANGED <<locVars, locFrame>>

\* The collector's life cycle: mounting, the enabled effect, teardown, and
\* the steps of the start and stop calls.
LocNext ==
  \/ \E i \in LocInst : LocMount(i)
  \/ \E i \in LocInst, b \in BOOLEAN : LocSetEnabled(i, b)
  \/ \E i \in LocInst : LocUnmount(i)
  \/ \E p \in 1..MaxLocStarts : LocForegroundPermission(p)
  \/ \E p \in 1..MaxLocStarts : LocWebQuery(p)
  \/ \E p \in 1..MaxLocStarts : LocBackgroundPermission(p)
  \/ \E p \in 1..MaxLocStarts : LocStartUpdates(p)
  \/ \E p \in 1..MaxLocStarts : LocWatch(p)
  \/ \E q \in 1..MaxLocStops : LocStopIsRegistered(q)
  \/ \E q \in 1..MaxLocStops : LocStopUpdates(q)
  \/ \E q \in 1..MaxLocStops : LocCleanupStop(q)

\* The life cycle of the Coordinator's instance alone (the Settings screen is
\* never opened).
LocCoordinatorNext ==
  \/ LocMount("coordinator")
  \/ \E b \in BOOLEAN : LocSetEnabled("coordinator", b)
  \/ LocUnmount("coordinator")
  \/ \E p \in 1..MaxLocStarts : LocForegroundPermission(p)
  \/ \E p \in 1..MaxLocStarts : LocWebQuery(p)
  \/ \E p \in 1..MaxLocStarts : LocBackgroundPermission(p)
  \/ \E p \in 1..MaxLocStarts : LocStartUpdates(p)
  \/ \E p \in 1..MaxLocStarts : LocWatch(p)
  \/ \E q \in 1..MaxLocStops : LocStopIsRegistered(q)
  \/ \E q \in 1..MaxLocStops : LocStopUpdates(q)
  \/ \E q \in 1..MaxLocStops : LocCleanupStop(q)

\* The Coordinator's collector is running: mounted, its mount-time stop call
\* over, enabled, and its start call done with the foreground watcher
\* subscribed and, on native, the background updates registered.
LocRunning ==
  /\ locLife = [i \in LocInst |-> IF i = "coordinator" THEN "mounted" ELSE "none"]
  /\ locEnabled = [i \in LocInst |-> i = "coordinator"]
  /\ locError = [i \in LocInst |-> NoError]
  /\ locSubRef = [i \in LocInst |-> IF i = "coordinator" THEN 1 ELSE 0]
  /\ locWatching = {1}
  /\ bgRegistered = (platform = "native")
  /\ locFgPerm = "granted"
  /\ locBgPerm = IF platform = "native" THEN "granted" ELSE "undetermined"
  /\ locStart = [p \in 1..MaxLocStarts |->
                   IF p = 1 THEN [inst |-> "coordinator", pc |-> "done", answer |-> "granted",
                                  errSet |-> FALSE, bg |-> platform = "native", fg |-> TRUE]
                   ELSE LocStartIdle]
  /\ locStarted = 1
  /\ locStop = [q \in 1..MaxLocStops |->
                  IF q = 1 THEN [inst |-> "coordinator", pc |-> "done"] ELSE LocStopIdle]
  /\ locStopped = 1
  /\ locSample = [s \in 1..MaxSamples |-> LocSampleIdle]
  /\ locSampled = 0
  /\ locations = 0

\* Samples delivered to a running collector, while connectivity comes and
\* goes and the component may be torn down.
LocSampleNext ==
  \/ \E p \in 1..MaxLocStarts : LocForegroundSample(p)
  \/ \E body \in {"error", "nodata", "locations"} : LocBackgroundSample(body)
  \/ \E s \in 1..MaxSamples : LocSampleGetUser(s)
  \/ \E s \in 1..MaxSamples : LocSampleGeocode(s)
  \/ \E s \in 1..MaxSamples : LocSampleInsert(s)
  \/ \E i \in LocInst : LocUnmount(i)
  \/ \E q \in 1..MaxLocStops : LocCleanupStop(q)
  \/ LocConnectivityChange

\* The timers of the two pollers; the polls they start are left at their
\* first await.
PollNext ==
  \/ \E i \in PhotoInst, b \in BOOLEAN : PhotoSetEnabled(i, b)
  \/ \E i \in PhotoInst : PhotoTick(i)
  \/ \E i \in PhotoInst : PhotoUnmount(i)
  \/ \E i \in CalInst, b \in BOOLEAN : CalSetEnabled(i, b)
  \/ \E i \in CalInst : CalTick(i)
  \/ \E i \in CalInst : CalUnmount(i)

-----------------------------------------------------------------------------
(* Coordinator: useDataCollection in src/unnamed/part_003                  *)

MaxErrorParts == 3

CheckFailed == "Failed to check background logging status"

\* The user's row of the users table: whether it exists, and its
\* background_logging.
NoPref == [exists |-> FALSE, background_logging |-> FALSE]
PrefOf(value) == [exists |-> TRUE, background_logging |-> value]

\* The Settings screen's loadUserSettings call (failed: its catch ran, the
\* alert 'Failed to load settings' is shown).
SettingsLoadIdle == [pc |-> "idle", failed |-> FALSE]

\* An error string as the list of the messages joined in it.
Parts(error) == IF error = NoError THEN <<>> ELSE <<error>>

\* The dependencies of the error effect.
CoDeps ==
  [loc |-> locError["coordinator"], photo |-> photoError["coordinator"],
   cal |-> calError["coordinator"], own |-> coError]

\* [locationTracking.error, photoSync.error, calendarSync.error,
\*  error].filter(Boolean), to be joined by ', '.
CombinedErrors(deps) == Parts(deps.loc) \o Parts(deps.photo) \o Parts(deps.cal) \o deps.own

CoInit ==
  /\ coLife = "none"
  /\ coEnabled = FALSE
  /\ coError = <<>>
  /\ coSeen = [loc |-> NoError, photo |-> NoError, cal |-> NoError, own |-> <<>>]
  /\ coCheck = [pc |-> "idle", failed |-> FALSE]
  /\ coSets = 0
  /\ userPref \in {NoPref, PrefOf(FALSE), PrefOf(TRUE)}
  /\ settingsLoad = SettingsLoadIdle

\* The component mounts: enabled is false, so of the three hooks only
\* useLocationTracking acts (stopLocationTracking); the error effect runs
\* over no error; checkBackgroundLogging() runs up to its await of getUser.
CoMount ==
  /\ coLife = "none"
  /\ coLife' = "mounted"
  /\ LocMountEffect("coordinator")
  /\ coSeen' = [CoDeps EXCEPT !.loc = locError'["coordinator"]]
  /\ coCheck' = [coCheck EXCEPT !.pc = "user"]
  /\ UNCHANGED <<coEnabled, coError, coSets, userPref, settingsLoad,
                 envVars, photoVars, calVars, chatVars>>

\* The component is torn down: isMounted becomes false, and the cleanups of
\* the three hooks run.
CoUnmount ==
  /\ coLife = "mounted"
  /\ coLife' = "unmounted"
  /\ LocUnmountEffect("coordinator")
  /\ PhotoUnmountEffect("coordinator")
  /\ CalUnmountEffect("coordinator")
  /\ UNCHANGED <<coEnabled, coError, coSeen, coCheck, coSets, userPref, settingsLoad,
                 envVars, chatVars>>

\* if (isMounted.current) setEnabled(value): with another value the
\* component renders and the [enabled] effects of the three hooks run.
CoSetEnabled(value) ==
  IF coLife = "mounted"
    THEN /\ coSets' = coSets + 1
         /\ coEnabled' = value
         /\ IF value # coEnabled
              THEN /\ LocEnabledEffect("coordinator", value)
                   /\ PhotoEnabledEffect("coordinator", value)
                   /\ CalEnabledEffect("coordinator", value)
              ELSE UNCHANGED <<locVars, photoVars, calVars>>
    ELSE UNCHANGED <<coSets, coEnabled, locVars, photoVars, calVars>>

\* The catch of checkBackgroundLogging: if (isMounted.current) setError(...).
CoCheckCatch ==
  /\ coError' = IF coLife = "mounted" THEN <<CheckFailed>> ELSE coError
  /\ coCheck' = [pc |-> "done", failed |-> TRUE]
  /\ UNCHANGED <<coEnabled, coSets, userPref, locVars, photoVars, calVars>>

\* supabase.auth.getUser() resolves: without a user or unmounted the call
\* returns; else the select on users is issued.
CoCheckGetUser ==
  /\ coCheck.pc = "user"
  /\ coCheck' = [coCheck EXCEPT !.pc = IF ~session \/ coLife # "mounted" THEN "done" ELSE "select"]
  /\ UNCHANGED <<coLife, coEnabled, coError, coSeen, coSets, userPref, settingsLoad,
                 envVars, photoVars, calVars, locVars, chatVars>>

\* (mutant) enabled is set to the opposite of the stored value.
BackgroundLoggingNegated(row) == ~row.background_logging

\* userData?.background_logging ?? false
BackgroundLoggingOf(row) == row.background_logging

\* The select on users resolves: the row (enabled is set to its
\* background_logging), PGRST116 for no row (the insert is issued), or
\* another error (thrown).
CoCheckSelect ==
  /\ coCheck.pc = "select"
  /\ \/ /\ userPref.exists
        /\ CoSetEnabled(BackgroundLoggingOf(userPref))
        /\ coCheck' = [coCheck EXCEPT !.pc = "done"]
        /\ UNCHANGED <<coError, userPref>>
     \/ /\ ~userPref.exists
        /\ coCheck' = [coCheck EXCEPT !.pc = "insert"]
        /\ UNCHANGED <<coEnabled, coError, coSets, userPref, locVars, photoVars, calVars>>
     \/ CoCheckCatch
  /\ UNCHANGED <<coLife, coSeen, settingsLoad, envVars, chatVars>>

\* The insert into users resolves: the row is there with background_logging
\* false and enabled is set to false, or the insert failed (thrown).
CoCheckInsert ==
  /\ coCheck.pc = "insert"
  /\ \/ /\ ~userPref.exists
        /\ userPref' = PrefOf(FALSE)
        /\ CoSetEnabled(FALSE)
        /\ coCheck' = [coCheck EXCEPT !.pc = "done"]
        /\ UNCHANGED coError
     \/ CoCheckCatch
  /\ UNCHANGED <<coLife, coSeen, settingsLoad, envVars, chatVars>>

\* The effect on [locationTracking.error, photoSync.error,
\* calendarSync.error, error] runs after a render in which one of them
\* changed: the errors, the Coordinator's own among them, are joined into
\* the Coordinator's error.
CoErrorEffect ==
  /\ coLife # "none"
  /\ coSeen # CoDeps
  /\ Len(CombinedErrors(CoDeps)) <= MaxErrorParts
  /\ coSeen' = CoDeps
  /\ coError' = IF coLife = "mounted" THEN CombinedErrors(CoDeps) ELSE coError
  /\ UNCHANGED <<coLife, coEnabled, coCheck, coSets, userPref, settingsLoad,
                 envVars, photoVars, calVars, locVars, chatVars>>

\* The Settings screen's updateSetting('background_logging', value): the
\* update of the user's row.
UpdateBackgroundLogging(value) ==
  /\ session
  /\ userPref.exists
  /\ userPref.background_logging # value
  /\ userPref' = PrefOf(value)
  /\ UNCHANGED <<coLife, coEnabled, coError, coSeen, coCheck, coSets, settingsLoad,
                 envVars, photoVars, calVars, locVars, chatVars>>

\* ---- loadUserSettings of the Settings screen (settings/index.tsx)

\* The Settings screen mounts: its effect calls loadUserSettings(), which
\* runs up to its await of getUser.
SettingsLoadCall ==
  /\ settingsLoad.pc = "idle"
  /\ settingsLoad' = [settingsLoad EXCEPT !.pc = "user"]
  /\ UNCHANGED <<coLife, coEnabled, coError, coSeen, coCheck, coSets, userPref,
                 envVars, photoVars, calVars, locVars, chatVars>>

\* supabase.auth.getUser() resolves: without a user the call returns; else
\* the select on users is issued.
SettingsLoadGetUser ==
  /\ settingsLoad.pc = "user"
  /\ settingsLoad' = [settingsLoad EXCEPT !.pc = IF ~session THEN "done" ELSE "select"]
  /\ UNCHANGED <<coLife, coEnabled, coError, coSeen, coCheck, coSets, userPref,
                 envVars, photoVars, calVars, locVars, chatVars>>

\* The select on users resolves: the row (the four switches are set from
\* it; the rows of this model hold false for the three collectors, as
\* inserted), PGRST116 for no row (the insert is issued), or another error
\* (thrown: the alert).
SettingsLoadSelect ==
  /\ settingsLoad.pc = "select"
  /\ \/ /\ userPref.exists
        /\ settingsLoad' = [settingsLoad EXCEPT !.pc = "done"]
     \/ /\ ~userPref.exists
        /\ settingsLoad' = [settingsLoad EXCEPT !.pc = "insert"]
     \/ settingsLoad' = [pc |-> "done", failed |-> TRUE]
  /\ UNCHANGED <<coLife, coEnabled, coError, coSeen, coCheck, coSets, userPref,
                 envVars, photoVars, calVars, locVars, chatVars>>

\* The insert into users resolves (id is the primary key: a second row of
\* the same user is refused): the row is there, or insertError is thrown.
SettingsLoadInsert ==
  /\ settingsLoad.pc = "insert"
  /\ \/ /\ ~userPref.exists
        /\ userPref' = PrefOf(FALSE)
        /\ settingsLoad' = [settingsLoad EXCEPT !.pc = "done"]
     \/ /\ settingsLoad' = [pc |-> "done", failed |-> TRUE]
        /\ UNCHANGED userPref
  /\ UNCHANGED <<coLife, coEnabled, coError, coSeen, coCheck, coSets,
                 envVars, photoVars, calVars, locVars, chatVars>>

\* The two readers of the user's row: the Coordinator of the layout and the
\* Settings screen.
PreferenceNext ==
  \/ CoMount
  \/ CoCheckGetUser
  \/ CoCheckSelect
  \/ CoCheckInsert
  \/ SettingsLoadCall
  \/ SettingsLoadGetUser
  \/ SettingsLoadSelect
  \/ SettingsLoadInsert

CoNext ==
  \/ CoMount
  \/ CoUnmount
  \/ CoCheckGetUser
  \/ CoCheckSelect
  \/ CoCheckInsert
  \/ CoErrorEffect
  \/ \E value \in BOOLEAN : UpdateBackgroundLogging(value)
  \/ \E p \in 1..MaxLocStarts : LocForegroundPermission(p)
  \/ \E p \in 1..MaxLocStarts : LocWebQuery(p)
  \/ \E p \in 1..MaxLocStarts : LocBackgroundPermission(p)
  \/ \E p \in 1..MaxLocStarts : LocStartUpdates(p)
  \/ \E p \in 1..MaxLocStarts : LocWatch(p)
  \/ \E q \in 1..MaxLocStops : LocStopIsRegistered(q)
  \/ \E q \in 1..MaxLocStops : LocStopUpdates(q)
  \/ \E q \in 1..MaxLocStops : LocCleanupStop(q)
  \/ \E c \in 1..MaxPhotoCycles : PhotoPermission(c)
  \/ \E c \in 1..MaxPhotoCycles : PhotoGetUser(c)
  \/ \E c \in 1..MaxCalCycles : CalPermission(c)
  \/ \E c \in 1..MaxCalCycles : CalGetUser(c)

-----------------------------------------------------------------------------
(* Conversation surface, local cache and sync: ChatScreen in               *)
(* src/unnamed/part_001                                                    *)

MaxLoads == 2

\* A message: id, type, content, timestamp (ms) and the uris of its photos
\* (none for undefined).  The rows of the remote table carry the same fields;
\* timestamps keep their millisecond through toISOString, JSON and new Date.
Msg(id, type, content, ts, photos) ==
  [id |-> id, type |-> type, content |-> content, timestamp |-> ts, photos |-> photos]

\* Message ids: `user_${Date.now()}_${random}`, `system_${Date.now()}` and
\* Date.now().toString() (kind "plain"); n stands for the random suffix.
MsgId(kind, at, n) == [kind |-> kind, at |-> at, n |-> n]

\* Messages of earlier runs, as the cache file may hold them.
CachedMsgs ==
  { Msg(MsgId("user", 1, 8), "user", "where was I", 1, <<"old.jpg">>),
    Msg(MsgId("plain", 2, 0), "assistant", "at home", 2, <<>>) }

\* Rows the remote table may hold from earlier syncs and other devices: one
\* shares its id with a cached message but not its content, one shares a
\* timestamp with it under another id.
RemoteRows ==
  { Msg(MsgId("plain", 2, 0), "assistant", "reacted", 2, <<>>),
    Msg(MsgId("user", 1, 9), "user", "hello", 1, <<>>) }

\* The cache file: whether it exists, and the list it holds.
NoFile == [exists |-> FALSE, content |-> <<>>]
FileOf(list) == [exists |-> TRUE, content |-> list]

MaxCached == 2

Ids(list) == {list[n].id : n \in 1..Len(list)}
UniqueIds(list) == \A m, n \in 1..Len(list) : list[m].id = list[n].id => m = n

\* All orders of the elements of a set.
Orders(set) ==
  {seq \in [1..Cardinality(set) -> set] : \A x \in set : \E n \in DOMAIN seq : seq[n] = x}

\* Contents the cache file may have when the app starts.
CachedHistories ==
  UNION {Orders(set) : set \in {sub \in SUBSET CachedMsgs : Cardinality(sub) <= MaxCached}}

RECURSIVE InsertByTimestamp(_, _)
\* m put into the sorted list after every element that does not compare
\* greater (a.timestamp - b.timestamp <= 0 keeps a before b).
InsertByTimestamp(sorted, m) ==
  IF sorted = <<>> THEN <<m>>
  ELSE IF Head(sorted).timestamp - m.timestamp <= 0
       THEN <<Head(sorted)>> \o InsertByTimestamp(Tail(sorted), m)
       ELSE <<m>> \o sorted

RECURSIVE SortByTimestampFrom(_, _)
SortByTimestampFrom(sorted, rest) ==
  IF rest = <<>> THEN sorted
  ELSE SortByTimestampFrom(InsertByTimestamp(sorted, Head(rest)), Tail(rest))

KeepOrder(list) == list

\* list.sort((a, b) => a.timestamp.getTime() - b.timestamp.getTime()): a
\* stable sort.
SortByTimestamp(list) == SortByTimestampFrom(<<>>, list)

\* (mutant) no incoming row is filtered out.
KeepAllNewMessages(prev, newMessages) == newMessages

\* newMessages.filter(m => !existingIds.has(m.id))
UniqueNewMessages(prev, newMessages) ==
  Filter(newMessages, {m \in Range(newMessages) : m.id \notin Ids(prev)})

\* The updater of the merge: [...prev, ...uniqueNewMessages].sort(...)
MergeMessages(prev, newMessages) ==
  SortByTimestamp(prev \o UniqueNewMessages(prev, newMessages))

\* What .select('*').order('timestamp', {ascending: true}) may answer: the
\* rows in an order ascending by timestamp (rows of equal timestamp in any
\* order).
SelectOrdered(rows) ==
  {seq \in Orders(rows) :
     \A m, n \in 1..Len(seq) : m < n => seq[m].timestamp <= seq[n].timestamp}

\* upsert(rows, {onConflict: 'id'}): a row replaces the stored row of its id.
Upsert(table, rows) == {r \in table : r.id \notin Ids(rows)} \cup Range(rows)

\* A cacheChatMessages call.  msgs: the `messages` of its closure; attempts:
\* upserts issued; wrote: how its local write ended ("none" before, "ok",
\* "failed" when it threw) and written: what it put in the file; offline: NetInfo answered not
\* connected; succeeded: an upsert succeeded; errSet: its catch set the error.
NewCacheCall(msgs) ==
  [pc |-> "session", msgs |-> msgs, retryCount |-> 0, attempts |-> 0,
   wrote |-> "none", written |-> <<>>, offline |-> FALSE, succeeded |-> FALSE, errSet |-> FALSE,
   lastFailure |-> "none"]

\* (mutant) the effect never calls cacheChatMessages().
CacheEffectSkips(newMessages) == cacheCall

\* The effect on [messages]: a non-empty new list calls cacheChatMessages(),
\* which runs up to its await of getSession.
CacheEffect(newMessages) ==
  IF Len(newMessages) > 0 THEN Append(cacheCall, NewCacheCall(newMessages)) ELSE cacheCall

\* A loadCachedMessages call, and the checkNetworkStatus() called with it
\* ("none", "pending", "done").
LoadIdle == [pc |-> "idle", check |-> "none"]

\* The state after the screen mounted: no message in memory, and the mount
\* effect's loadCachedMessages() awaiting getSession.
CacheInit ==
  /\ messages = <<>>
  /\ lastOp = "none"
  /\ cacheFile \in {NoFile} \cup {FileOf(list) : list \in CachedHistories}
  /\ remoteMessages \in SUBSET RemoteRows
  /\ chatError = NoError
  /\ isOffline = FALSE
  /\ cacheCall = <<>>
  /\ loadCall = [l \in 1..MaxLoads |->
                   IF l = 1 THEN [pc |-> "session", check |-> "none"] ELSE LoadIdle]
  /\ loadStarted = 1

SaveFailedMessage == "Failed to save messages. They will be saved when you are back online."
LoadFailedMessage == "Failed to load messages"

\* ---- loadCachedMessages

\* The app comes to the foreground (handleAppStateChange):
\* loadCachedMessages() and checkNetworkStatus() are called.
LoadAgain ==
  /\ loadStarted < MaxLoads
  /\ loadCall' = [loadCall EXCEPT ![loadStarted + 1] = [pc |-> "session", check |-> "pending"]]
  /\ loadStarted' = loadStarted + 1
  /\ UNCHANGED <<messages, lastOp, cacheFile, remoteMessages, chatError, isOffline,
                 cacheCall, connected, cacheFrame>>

\* checkNetworkStatus: NetInfo.fetch() resolves, setIsOffline(!isConnected).
CheckNetworkStatus(l) ==
  /\ loadCall[l].check = "pending"
  /\ loadCall' = [loadCall EXCEPT ![l].check = "done"]
  /\ isOffline' = ~connected
  /\ UNCHANGED <<messages, lastOp, cacheFile, remoteMessages, chatError,
                 cacheCall, loadStarted, connected, cacheFrame>>

\* auth.getSession() resolves: without a user the call returns.
LoadGetSession(l) ==
  /\ loadCall[l].pc = "session"
  /\ loadCall' = [loadCall EXCEPT ![l].pc = IF session THEN "read" ELSE "done"]
  /\ UNCHANGED <<messages, lastOp, cacheFile, remoteMessages, chatError, isOffline,
                 cacheCall, loadStarted, connected, cacheFrame>>

\* FileSystem.readAsStringAsync resolves and the parsed list replaces the
\* in-memory one, or it throws (no file, unreadable) and is ignored; then
\* NetInfo.fetch() is awaited.
LoadRead(l) ==
  /\ loadCall[l].pc = "read"
  /\ \E ok \in (IF ~cacheFile.exists THEN {FALSE} ELSE BOOLEAN) :
       IF ok
         THEN /\ messages' = cacheFile.content
              /\ lastOp' = "cached"
              /\ cacheCall' = CacheEffect(cacheFile.content)
         ELSE UNCHANGED <<messages, lastOp, cacheCall>>
  /\ loadCall' = [loadCall EXCEPT ![l].pc = "netinfo"]
  /\ UNCHANGED <<cacheFile, remoteMessages, chatError, isOffline, loadStarted,
                 connected, cacheFrame>>

\* NetInfo.fetch() resolves: offline, the remote load is skipped.
LoadNetInfo(l) ==
  /\ loadCall[l].pc = "netinfo"
  /\ loadCall' = [loadCall EXCEPT ![l].pc = IF ~connected THEN "done" ELSE "fetch"]
  /\ UNCHANGED <<messages, lastOp, cacheFile, remoteMessages, chatError, isOffline,
                 cacheCall, loadStarted, connected, cacheFrame>>

\* The select on messages resolves: its rows are merged into memory; a store
\* error sets the error; a thrown network TypeError is only logged.
LoadFetch(l) ==
  /\ loadCall[l].pc = "fetch"
  /\ \/ \E data \in SelectOrdered(remoteMessages) :
          /\ messages' = MergeMessages(messages, data)
          /\ lastOp' = "merge"
          /\ cacheCall' = CacheEffect(messages')
          /\ UNCHANGED chatError
     \/ \E failure \in {"error", "network"} :
          /\ chatError' = IF failure = "error" THEN LoadFailedMessage ELSE chatError
          /\ UNCHANGED <<messages, lastOp, cacheCall>>
  /\ loadCall' = [loadCall EXCEPT ![l].pc = "done"]
  /\ UNCHANGED <<cacheFile, remoteMessages, isOffline, loadStarted, connected, cacheFrame>>

\* ---- cacheChatMessages

\* maxRetries
MaxUpsertAttempts == 3

\* auth.getSession() resolves: without a user the call returns; else the
\* local write is issued.
CacheGetSession(c) ==
  /\ cacheCall[c].pc = "session"
  /\ cacheCall' = [cacheCall EXCEPT ![c].pc = IF session THEN "write" ELSE "done"]
  /\ UNCHANGED <<messages, lastOp, cacheFile, remoteMessages, chatError, isOffline,
                 loadCall, loadStarted, connected, cacheFrame>>

\* JSON.stringify(messages): the whole list of the closure.
CacheFileContent(msgs) == msgs

\* FileSystem.writeAsStringAsync resolves (the file is overwritten) or throws
\* (a warning); then NetInfo.fetch() is awaited.
CacheWrite(c) ==
  /\ cacheCall[c].pc = "write"
  /\ \E ok \in BOOLEAN :
       /\ cacheFile' = IF ok THEN FileOf(CacheFileContent(cacheCall[c].msgs)) ELSE cacheFile
       /\ cacheCall' = [cacheCall EXCEPT ![c].pc = "netinfo",
                          ![c].wrote = IF ok THEN "ok" ELSE "failed",
                          ![c].written = IF ok THEN cacheFile'.content ELSE <<>>]
  /\ UNCHANGED <<messages, lastOp, remoteMessages, chatError, isOffline,
                 loadCall, loadStarted, connected, cacheFrame>>

CacheGateAlwaysUpserts(isConnected) == "upsert"

\* The connectivity gate of cacheChatMessages.
CacheGate(isConnected) == IF ~isConnected THEN "done" ELSE "upsert"

\* NetInfo.fetch() resolves: offline the call returns; online the rows are
\* prepared and the first upsert is issued.
CacheNetInfo(c) ==
  /\ cacheCall[c].pc = "netinfo"
  /\ LET next == CacheGate(connected) IN
       cacheCall' = [cacheCall EXCEPT ![c].pc = next, ![c].offline = ~connected,
                       ![c].attempts = IF next = "upsert" THEN 1 ELSE 0]
  /\ UNCHANGED <<messages, lastOp, cacheFile, remoteMessages, chatError, isOffline,
                 loadCall, loadStarted, connected, cacheFrame>>

CacheAfterFailureOneMore(retryCount) ==
  IF retryCount = MaxUpsertAttempts + 1 THEN "done" ELSE "backoff"

\* After a failed upsert and retryCount++: give up (throw e) or wait.
CacheAfterFailure(retryCount) ==
  IF retryCount = MaxUpsertAttempts THEN "done" ELSE "backoff"

\* Whether the outer catch sets the error for exception e.
CacheCatchSetsError(e) == e # "network"

\* The upsert resolves: it succeeded (the loop breaks), the store answered an
\* error, or the request threw TypeError('Network request failed').  A
\* failure counts a retry; the last one is rethrown into the outer catch.
CacheUpsert(c) ==
  /\ cacheCall[c].pc = "upsert"
  /\ \/ /\ connected
        /\ remoteMessages' = Upsert(remoteMessages, cacheCall[c].msgs)
        /\ cacheCall' = [cacheCall EXCEPT ![c].pc = "done", ![c].succeeded = TRUE]
        /\ UNCHANGED <<chatError, isOffline>>
     \/ \E e \in {"error", "network"} :
          LET retryCount == cacheCall[c].retryCount + 1
              next == CacheAfterFailure(retryCount)
              caught == next = "done" /\ CacheCatchSetsError(e)
          IN  /\ cacheCall' = [cacheCall EXCEPT ![c].pc = next,
                                 ![c].retryCount = retryCount,
                                 ![c].lastFailure = IF next = "done" THEN e ELSE "none",
                                 ![c].errSet = caught]
              /\ chatError' = IF caught THEN SaveFailedMessage ELSE chatError
              /\ isOffline' = IF caught THEN TRUE ELSE isOffline
              /\ UNCHANGED remoteMessages
  /\ UNCHANGED <<messages, lastOp, cacheFile, loadCall, loadStarted, connected, cacheFrame>>

\* The backoff timer (retryDelay * 2^(retryCount - 1)) fires: the next upsert
\* is issued.
CacheBackoff(c) ==
  /\ cacheCall[c].pc = "backoff"
  /\ cacheCall' = [cacheCall EXCEPT ![c].pc = "upsert", ![c].attempts = @ + 1]
  /\ UNCHANGED <<messages, lastOp, cacheFile, remoteMessages, chatError, isOffline,
                 loadCall, loadStarted, connected, cacheFrame>>

\* NetInfo's listener: setIsOffline(!state.isConnected).  Its `error` is the
\* null of the mount render, so the branch that clears the error never runs.
ChatConnectivityChange ==
  /\ connected' = ~connected
  /\ isOffline' = ~connected'
  /\ UNCHANGED <<messages, lastOp, cacheFile, remoteMessages, chatError,
                 cacheCall, loadCall, loadStarted, cacheFrame>>

\* The loads alone; the cacheChatMessages calls they trigger stay at their
\* first await.
LoadNext ==
  \/ LoadAgain
  \/ \E l \in 1..MaxLoads : LoadGetSession(l)
  \/ \E l \in 1..MaxLoads : LoadRead(l)
  \/ \E l \in 1..MaxLoads : LoadNetInfo(l)
  \/ \E l \in 1..MaxLoads : LoadFetch(l)
  \/ \E l \in 1..MaxLoads : CheckNetworkStatus(l)
  \/ ChatConnectivityChange

\* The load of the mount and the cacheChatMessages calls it triggers.
CacheNext ==
  \/ LoadGetSession(1)
  \/ LoadRead(1)
  \/ LoadNetInfo(1)
  \/ LoadFetch(1)
  \/ \E c \in DOMAIN cacheCall : CacheGetSession(c)
  \/ \E c \in DOMAIN cacheCall : CacheWrite(c)
  \/ \E c \in DOMAIN cacheCall : CacheNetInfo(c)
  \/ \E c \in DOMAIN cacheCall : CacheUpsert(c)
  \/ \E c \in DOMAIN cacheCall : CacheBackoff(c)
  \/ ChatConnectivityChange

\* The steps of the loadCachedMessages calls, with a cache file that can be
\* read, and of checkNetworkStatus.
LoadSteps ==
  \/ \E l \in 1..MaxLoads : LoadGetSession(l)
  \/ \E l \in 1..MaxLoads : LoadRead(l) /\ lastOp' = "cached"
  \/ \E l \in 1..MaxLoads : LoadNetInfo(l)
  \/ \E l \in 1..MaxLoads : LoadFetch(l)
  \/ \E l \in 1..MaxLoads : CheckNetworkStatus(l)

\* The steps of the cacheChatMessages calls.
CacheSteps ==
  \/ \E c \in DOMAIN cacheCall : CacheGetSession(c)
  \/ \E c \in DOMAIN cacheCall : CacheWrite(c)
  \/ \E c \in DOMAIN cacheCall : CacheNetInfo(c)
  \/ \E c \in DOMAIN cacheCall : CacheUpsert(c)
  \/ \E c \in DOMAIN cacheCall : CacheBackoff(c)

\* After the app came to the foreground, with no user action.
SyncNext == LoadSteps \/ CacheSteps

-----------------------------------------------------------------------------
(* Conversation surface, sending: handleSend and callDeepSeekAPI in        *)
(* src/unnamed/part_001                                                    *)

MaxSends == 2

\* Presses of the send button in the specifications of single turns.
MaxTurns == 1
MaxNow == 4

MAX_RETRIES == 3

NoMedia == "undefined"
Media == {"new.jpg"}

\* What the user may type.
Queries == {"hello", "show my photos"}
DefaultPhotoQuery == "What is in this photo?"

\* query.toLowerCase().includes(word), for the words the code looks for.
Includes(query, word) ==
  CASE query = "show my photos" -> word = "photo"
    [] query = DefaultPhotoQuery -> word = "photo"
    [] OTHER -> FALSE

\* Answers of the select on photo_logs for the month, after processing: no
\* row, or one row of this week (not of today).
BeachPhoto ==
  [file_uri |-> "file://beach.jpg", today |-> FALSE, thisWeek |-> TRUE,
   location_label |-> "Unknown location"]
PhotoSelections == {<<>>, <<BeachPhoto>>}

\* The filter of relevantPhotos.
IsRelevantPhoto(photo, query) ==
  IF Includes(query, "today") THEN photo.today
  ELSE IF Includes(query, photo.location_label) THEN TRUE
  ELSE IF Includes(query, "photo") \/ Includes(query, "picture") THEN photo.thisWeek
  ELSE FALSE

RECURSIVE PhotoUris(_)
PhotoUris(photos) ==
  IF photos = <<>> THEN <<>> ELSE <<Head(photos).file_uri>> \o PhotoUris(Tail(photos))

\* relevantPhotos.map(photo => ({uri: photo.file_uri, ...}))
RelevantPhotos(photos, query) ==
  PhotoUris(Filter(photos, {photo \in Range(photos) : IsRelevantPhoto(photo, query)}))

RECURSIVE LatestUserMessage(_)
\* [...messages].reverse().find(msg => msg.type === 'user'); <<>> for undefined
LatestUserMessage(list) ==
  IF list = <<>> THEN <<>>
  ELSE IF list[Len(list)].type = "user" THEN <<list[Len(list)]>>
  ELSE LatestUserMessage(SubSeq(list, 1, Len(list) - 1))

\* latestUserMessage?.photos || [], over the `messages` of the closure
CurrentPhotos(closure) ==
  IF LatestUserMessage(closure) = <<>> THEN <<>> ELSE LatestUserMessage(closure)[1].photos

\* Which description of the current photo goes into the prompt.
CurrentPhotoDescription(currentPhotos, photoAnalysis) ==
  IF Len(currentPhotos) > 0
    THEN IF photoAnalysis # "" THEN photoAnalysis ELSE "fallback"
    ELSE ""

\* The photos of the assistant message.
ResponsePhotos(currentPhotos, photos, query) ==
  IF Len(currentPhotos) > 0 THEN currentPhotos ELSE RelevantPhotos(photos, query)

OfflineMessage == "You appear to be offline. Please check your internet connection and try again."
NotAuthenticated == "Not authenticated"
GenericFailure == "An error occurred while processing your request"
ApiCallFailed == "API call failed"
VisionFailed == "I can see you've shared an image, but I wasn't able to analyze it"
VisionAnalysis == "analysis"

\* A handleSend call.  closure: the `messages` it and its callDeepSeekAPI
\* see; content, photos: of its user message; analysis: photoAnalysis;
\* systemAt: the time in the id of its 'Analyzing' message; issuedAt: when
\* the vision request left; attempts: HTTP requests to the chat API; thrown:
\* exceptions callDeepSeekAPI let out; errors: error messages appended.
SendIdle ==
  [pc |-> "idle", closure |-> <<>>, input |-> "", media |-> NoMedia,
   content |-> "", photos |-> <<>>, analysis |-> "", issuedAt |-> 0,
   dataPhotos |-> <<>>, retryCount |-> 0, attempts |-> 0,
   description |-> "", answered |-> FALSE, responsePhotos |-> <<>>,
   thrown |-> 0, errors |-> 0]

\* The clock starts after the messages of earlier runs.
SendInit ==
  /\ now = 3
  /\ input = ""
  /\ selectedMedia = NoMedia
  /\ captured = <<>>
  /\ loading = FALSE
  /\ isTyping = FALSE
  /\ sendCall = [t \in 1..MaxSends |-> SendIdle]
  /\ sendStarted = 0

Tick ==
  /\ now < MaxNow
  /\ now' = now + 1
  /\ UNCHANGED <<input, selectedMedia, captured, loading, isTyping, sendCall, sendStarted,
                 cacheVars, connected, sendFrame>>

\* onChangeText={setInput}: the render makes a new handleSend, over the
\* messages of that render.
TypeInput(text) ==
  /\ ~isOffline
  /\ text # input
  /\ input' = text
  /\ captured' = messages
  /\ UNCHANGED <<now, selectedMedia, loading, isTyping, sendCall, sendStarted,
                 cacheVars, connected, sendFrame>>

\* A photo is picked or taken: setSelectedMedia(photo), and a new handleSend.
PickMedia(uri) ==
  /\ uri # selectedMedia
  /\ selectedMedia' = uri
  /\ captured' = messages
  /\ UNCHANGED <<now, input, loading, isTyping, sendCall, sendStarted,
                 cacheVars, connected, sendFrame>>

\* The send button is pressed (enabled with something to send, not loading,
\* not offline): handleSend runs up to its await of NetInfo.fetch().
SendPress ==
  /\ sendStarted < MaxSends
  /\ ~(input = "" /\ selectedMedia = NoMedia) /\ ~loading /\ ~isOffline
  /\ sendCall' = [sendCall EXCEPT ![sendStarted + 1] =
                    [SendIdle EXCEPT !.pc = "netinfo", !.closure = captured,
                                     !.input = input, !.media = selectedMedia]]
  /\ sendStarted' = sendStarted + 1
  /\ UNCHANGED <<now, input, selectedMedia, captured, loading, isTyping,
                 cacheVars, connected, sendFrame>>

\* (mutant) without the finally: loading and isTyping stay as they are.
SendCatchWithoutFinally(t, call, message) ==
  /\ chatError' = message
  /\ messages' = Append(messages, Msg(MsgId("plain", now, 0), "system", "error", now, <<>>))
  /\ lastOp' = "send"
  /\ cacheCall' = CacheEffect(messages')
  /\ UNCHANGED <<loading, isTyping>>
  /\ captured' = messages'
  /\ sendCall' = [sendCall EXCEPT ![t] = [call EXCEPT !.pc = "done", !.errors = @ + 1]]

\* (mutant) the catch appends no error message.
SendCatchAppendsNothing(t, call, message) ==
  /\ chatError' = message
  /\ UNCHANGED <<messages, lastOp, cacheCall, captured>>
  /\ loading' = FALSE
  /\ isTyping' = FALSE
  /\ sendCall' = [sendCall EXCEPT ![t] = [call EXCEPT !.pc = "done", !.errors = @ + 1]]

\* The catch and finally of handleSend: the error is set, an error message
\* is appended, loading and isTyping are cleared (and a new handleSend is
\* made over the messages of that render).
SendCatch(t, call, message) ==
  /\ chatError' = message
  /\ messages' = Append(messages, Msg(MsgId("plain", now, 0), "system", "error", now, <<>>))
  /\ lastOp' = "send"
  /\ cacheCall' = CacheEffect(messages')
  /\ loading' = FALSE
  /\ isTyping' = FALSE
  /\ captured' = messages'
  /\ sendCall' = [sendCall EXCEPT ![t] = [call EXCEPT !.pc = "done", !.errors = @ + 1]]

\* (mutant) handleSend goes on whatever NetInfo answered.
SendGateAlwaysOnline(isConnected) == "session"

\* The connectivity gate of handleSend: if (!networkState.isConnected) return.
SendGate(isConnected) == IF ~isConnected THEN "done" ELSE "session"

\* NetInfo.fetch() resolves.  Offline: the error and the offline flag are
\* set and the call returns.  Online: loading is set, the error cleared, the
\* user message appended, input and selected media cleared; getSession is
\* awaited.
SendNetInfo(t) ==
  /\ sendCall[t].pc = "netinfo"
  /\ IF SendGate(connected) = "done"
       THEN /\ chatError' = OfflineMessage
            /\ isOffline' = TRUE
            /\ sendCall' = [sendCall EXCEPT ![t].pc = "done"]
            /\ UNCHANGED <<messages, lastOp, cacheCall, input, selectedMedia,
                           captured, loading>>
       ELSE LET photos == IF sendCall[t].media # NoMedia THEN <<sendCall[t].media>> ELSE <<>>
                content == IF sendCall[t].input # "" THEN sendCall[t].input
                           ELSE IF photos # <<>> THEN DefaultPhotoQuery ELSE ""
            IN  /\ loading' = TRUE
                /\ chatError' = NoError
                /\ messages' = Append(messages, Msg(MsgId("user", now, t), "user", content, now, photos))
                /\ lastOp' = "send"
                /\ cacheCall' = CacheEffect(messages')
                /\ input' = ""
                /\ selectedMedia' = NoMedia
                /\ captured' = messages'
                /\ sendCall' = [sendCall EXCEPT ![t].pc = "session", ![t].content = content,
                                                ![t].photos = photos]
                /\ UNCHANGED isOffline
  /\ UNCHANGED <<now, isTyping, sendStarted, connected, sendFrame>>

\* auth.getSession() resolves.  No user: 'Not authenticated' is thrown.  With
\* a photo: the typing indicator and the 'Analyzing' message, and the image
\* is read.  Without: the context is fetched.
SendGetSession(t) ==
  /\ sendCall[t].pc = "session"
  /\ IF ~session
       THEN /\ SendCatch(t, sendCall[t], NotAuthenticated)
            /\ UNCHANGED <<isOffline>>
       ELSE IF sendCall[t].photos # <<>>
         THEN /\ isTyping' = TRUE
              /\ messages' = Append(messages, Msg(MsgId("system", now, 0), "system", "analyzing", now, <<>>))
              /\ lastOp' = "send"
              /\ cacheCall' = CacheEffect(messages')
              /\ sendCall' = [sendCall EXCEPT ![t].pc = "vision", ![t].issuedAt = now]
              /\ UNCHANGED <<chatError, isOffline, loading, captured>>
         ELSE /\ sendCall' = [sendCall EXCEPT ![t].pc = "context"]
              /\ UNCHANGED <<messages, lastOp, cacheCall, chatError, isOffline, loading,
                             captured, isTyping>>
  /\ UNCHANGED <<now, input, selectedMedia, sendStarted, connected, sendFrame>>

\* prev.filter(msg => msg.id !== `system_${Date.now()}`)
RemoveAnalyzing(prev, at) ==
  Filter(prev, {msg \in Range(prev) : msg.id # MsgId("system", at, 0)})

\* (mutant) a failed read or vision request goes to the catch of handleSend.
SendVisionAborts(t) ==
  /\ sendCall[t].pc = "vision"
  /\ now > sendCall[t].issuedAt
  /\ \/ /\ messages' = RemoveAnalyzing(messages, now)
        /\ lastOp' = "send"
        /\ cacheCall' = CacheEffect(messages')
        /\ sendCall' = [sendCall EXCEPT ![t].pc = "context", ![t].analysis = VisionAnalysis]
        /\ UNCHANGED <<captured, loading, isTyping, chatError>>
     \/ SendCatch(t, sendCall[t], GenericFailure)
  /\ UNCHANGED <<now, input, selectedMedia, sendStarted,
                 isOffline, connected, sendFrame>>

\* The image read and the vision request resolve (the request takes time).
\* A description: photoAnalysis is set and the filter on the 'Analyzing'
\* message runs.  A failed read or request: photoAnalysis is the apology.
\* Then the context is fetched.
SendVision(t) ==
  /\ sendCall[t].pc = "vision"
  /\ now > sendCall[t].issuedAt
  /\ \/ /\ messages' = RemoveAnalyzing(messages, now)
        /\ lastOp' = "send"
        /\ cacheCall' = CacheEffect(messages')
        /\ sendCall' = [sendCall EXCEPT ![t].pc = "context", ![t].analysis = VisionAnalysis]
     \/ /\ sendCall' = [sendCall EXCEPT ![t].pc = "context", ![t].analysis = VisionFailed]
        /\ UNCHANGED <<messages, lastOp, cacheCall>>
  /\ UNCHANGED <<now, input, selectedMedia, captured, loading, isTyping, sendStarted,
                 chatError, isOffline, connected, sendFrame>>

\* The selects on calendar_events, locations and photo_logs resolve.  An
\* error of the first two is thrown (it is no Error instance: the generic
\* message).  Else the typing indicator is set and callDeepSeekAPI runs, over
\* the messages of the closure, up to its HTTP request.
SendContext(t) ==
  /\ sendCall[t].pc = "context"
  /\ \/ /\ SendCatch(t, sendCall[t], GenericFailure)
        /\ UNCHANGED <<isOffline>>
     \/ \E photos \in PhotoSelections :
          /\ isTyping' = TRUE
          /\ sendCall' = [sendCall EXCEPT ![t].pc = "http", ![t].dataPhotos = photos,
                            ![t].attempts = 1,
                            ![t].description =
                               CurrentPhotoDescription(CurrentPhotos(sendCall[t].closure),
                                                       sendCall[t].analysis)]
          /\ UNCHANGED <<messages, lastOp, cacheCall, chatError, isOffline, loading, captured>>
  /\ UNCHANGED <<now, input, selectedMedia, sendStarted, connected, sendFrame>>

ApiAfterFailureOneLess(retryCount) ==
  IF retryCount < MAX_RETRIES - 1 THEN "delay" ELSE "throw"

\* The catch of callDeepSeekAPI: wait and call again, or rethrow.
ApiAfterFailure(retryCount) ==
  IF retryCount < MAX_RETRIES THEN "delay" ELSE "throw"

\* The guard at the head of callDeepSeekAPI.
ApiGuard(retryCount) == IF retryCount > MAX_RETRIES THEN "throw" ELSE "fetch"

\* The HTTP request to the chat API resolves.  A valid answer: the assistant
\* message is appended and handleSend finishes.  Else (fetch threw, status
\* not ok, no content) the catch retries after a delay or rethrows into the
\* catch of handleSend.
ApiHttp(t) ==
  /\ sendCall[t].pc = "http"
  /\ \/ LET photos == ResponsePhotos(CurrentPhotos(sendCall[t].closure),
                                     sendCall[t].dataPhotos, sendCall[t].content)
        IN  /\ connected
            /\ messages' = Append(messages, Msg(MsgId("plain", now, 0), "assistant", "reply", now, photos))
            /\ lastOp' = "send"
            /\ cacheCall' = CacheEffect(messages')
            /\ loading' = FALSE
            /\ isTyping' = FALSE
            /\ captured' = messages'
            /\ sendCall' = [sendCall EXCEPT ![t].pc = "done", ![t].answered = TRUE,
                                            ![t].responsePhotos = photos]
            /\ UNCHANGED <<chatError, isOffline>>
     \/ IF ApiAfterFailure(sendCall[t].retryCount) = "delay"
          THEN /\ sendCall' = [sendCall EXCEPT ![t].pc = "delay"]
               /\ UNCHANGED <<messages, lastOp, cacheCall, chatError, isOffline, loading,
                              isTyping, captured>>
          ELSE /\ SendCatch(t, [sendCall[t] EXCEPT !.thrown = @ + 1], ApiCallFailed)
               /\ UNCHANGED <<isOffline>>
  /\ UNCHANGED <<now, input, selectedMedia, sendStarted, connected, sendFrame>>

\* The retry delay (RETRY_DELAY * 2^retryCount) is over:
\* callDeepSeekAPI(data, retryCount + 1) runs up to its HTTP request.
ApiDelay(t) ==
  /\ sendCall[t].pc = "delay"
  /\ LET retryCount == sendCall[t].retryCount + 1 IN
       IF ApiGuard(retryCount) = "fetch"
         THEN /\ sendCall' = [sendCall EXCEPT ![t].pc = "http", ![t].retryCount = retryCount,
                                ![t].attempts = @ + 1]
              /\ UNCHANGED <<messages, lastOp, cacheCall, chatError, isOffline, loading,
                             isTyping, captured>>
         ELSE /\ SendCatch(t, [sendCall[t] EXCEPT !.retryCount = retryCount, !.thrown = @ + 1],
                           ApiCallFailed)
              /\ UNCHANGED <<isOffline>>
  /\ UNCHANGED <<now, input, selectedMedia, sendStarted, connected, sendFrame>>

\* Sending: the load of the mount, typing and picking while nothing is being
\* sent, and the handleSend calls; the cacheChatMessages calls stay at their
\* first await.
SendNext ==
  \/ LoadGetSession(1)
  \/ LoadRead(1)
  \/ LoadNetInfo(1)
  \/ LoadFetch(1)
  \/ Tick
  \/ ~loading /\ \E text \in Queries \cup {""} : TypeInput(text)
  \/ ~loading /\ \E uri \in Media \cup {NoMedia} : PickMedia(uri)
  \/ sendStarted < MaxTurns /\ SendPress
  \/ \E t \in 1..MaxSends : SendNetInfo(t)
  \/ \E t \in 1..MaxSends : SendGetSession(t)
  \/ \E t \in 1..MaxSends : SendVision(t)
  \/ \E t \in 1..MaxSends : SendContext(t)
  \/ \E t \in 1..MaxSends : ApiHttp(t)
  \/ \E t \in 1..MaxSends : ApiDelay(t)
  \/ ChatConnectivityChange

\* The handleSend calls alone, with stable connectivity and the load of the
\* mount still at its first await.
RetryNext ==
  \/ Tick
  \/ sendStarted < MaxTurns /\ SendPress
  \/ \E t \in 1..MaxSends : SendNetInfo(t)
  \/ \E t \in 1..MaxSends : SendGetSession(t)
  \/ \E t \in 1..MaxSends : SendVision(t)
  \/ \E t \in 1..MaxSends : SendContext(t)
  \/ \E t \in 1..MaxSends : ApiHttp(t)
  \/ \E t \in 1..MaxSends : ApiDelay(t)

\* The handleSend calls with the send button pressed again before the
\* first call set loading.
DoublePressNext ==
  \/ Tick
  \/ SendPress
  \/ \E t \in 1..MaxSends : SendNetInfo(t)
  \/ \E t \in 1..MaxSends : SendGetSession(t)
  \/ \E t \in 1..MaxSends : SendVision(t)
  \/ \E t \in 1..MaxSends : SendContext(t)
  \/ \E t \in 1..MaxSends : ApiHttp(t)
  \/ \E t \in 1..MaxSends : ApiDelay(t)

\* The three collectors of the Coordinator side by side, enabled once each:
\* one poll of photos and of the calendar, and the location collector with
\* its foreground samples.
CollectorsNext ==
  \/ PhotoSetEnabled("coordinator", TRUE)
  \/ \E c \in 1..MaxPhotoCycles : PhotoPermission(c)
  \/ \E c \in 1..MaxPhotoCycles : PhotoGetUser(c)
  \/ \E c \in 1..MaxPhotoCycles : PhotoGetAssets(c)
  \/ \E c \in 1..MaxPhotoCycles : PhotoSelect(c)
  \/ \E c \in 1..MaxPhotoCycles : PhotoLocate(c)
  \/ \E c \in 1..MaxPhotoCycles : PhotoInsert(c)
  \/ CalSetEnabled("coordinator", TRUE)
  \/ \E c \in 1..MaxCalCycles : CalPermission(c)
  \/ \E c \in 1..MaxCalCycles : CalGetUser(c)
  \/ \E c \in 1..MaxCalCycles : CalGetCalendars(c)
  \/ \E c \in 1..MaxCalCycles : CalGetEvents(c)
  \/ \E c \in 1..MaxCalCycles : CalSelect(c)
  \/ \E c \in 1..MaxCalCycles : CalInsert(c)
  \/ LocMount("coordinator")
  \/ LocSetEnabled("coordinator", TRUE)
  \/ \E q \in 1..MaxLocStops : LocStopIsRegistered(q)
  \/ \E p \in 1..MaxLocStarts : LocForegroundPermission(p)
  \/ \E p \in 1..MaxLocStarts : LocBackgroundPermission(p)
  \/ \E p \in 1..MaxLocStarts : LocStartUpdates(p)
  \/ \E p \in 1..MaxLocStarts : LocWatch(p)
  \/ \E p \in 1..MaxLocStarts : LocForegroundSample(p)
  \/ \E s \in 1..MaxSamples : LocSampleGetUser(s)
  \/ \E s \in 1..MaxSamples : LocSampleGeocode(s)
  \/ \E s \in 1..MaxSamples : LocSampleInsert(s)

\* The polls of the Coordinator's two pollers, record by record: the photo
\* polls its timer starts, and the calendar poll that enabling starts.
RecordsNext ==
  \/ PhotoSetEnabled("coordinator", TRUE)
  \/ PhotoTick("coordinator")
  \/ \E c \in 1..MaxPhotoCycles : PhotoPermission(c)
  \/ \E c \in 1..MaxPhotoCycles : PhotoGetUser(c)
  \/ \E c \in 1..MaxPhotoCycles : PhotoGetAssets(c)
  \/ \E c \in 1..MaxPhotoCycles : PhotoSelect(c)
  \/ \E c \in 1..MaxPhotoCycles : PhotoLocate(c)
  \/ \E c \in 1..MaxPhotoCycles : PhotoInsert(c)
  \/ CalSetEnabled("coordinator", TRUE)
  \/ \E c \in 1..MaxCalCycles : CalPermission(c)
  \/ \E c \in 1..MaxCalCycles : CalGetUser(c)
  \/ \E c \in 1..MaxCalCycles : CalGetCalendars(c)
  \/ \E c \in 1..MaxCalCycles : CalGetEvents(c)
  \/ \E c \in 1..MaxCalCycles : CalSelect(c)
  \/ \E c \in 1..MaxCalCycles : CalInsert(c)

\* A turn without a photo while the app may come back to the foreground:
\* the turn, the loads, and the cacheChatMessages calls up to their writes.
ForegroundNext ==
  \/ sendStarted < MaxTurns /\ SendPress
  \/ \E t \in 1..MaxSends : SendNetInfo(t)
  \/ \E t \in 1..MaxSends : SendGetSession(t)
  \/ \E t \in 1..MaxSends : SendContext(t)
  \/ \E t \in 1..MaxSends : ApiHttp(t)
  \/ \E t \in 1..MaxSends : ApiDelay(t)
  \/ LoadAgain
  \/ \E l \in 1..MaxLoads : LoadGetSession(l)
  \/ \E l \in 1..MaxLoads : LoadRead(l)
  \/ \E l \in 1..MaxLoads : LoadNetInfo(l)
  \/ \E l \in 1..MaxLoads : LoadFetch(l)
  \/ \E l \in 1..MaxLoads : CheckNetworkStatus(l)
  \/ \E c \in DOMAIN cacheCall : CacheGetSession(c)
  \/ \E c \in DOMAIN cacheCall : CacheWrite(c)

\* The Coordinator passes one `enabled` to its hooks: usePhotoSync(enabled)
\* and useCalendarSync(enabled) see a change in the same render, and their
\* effects run in the same commit.
PollersSetEnabled(b) ==
  /\ PhotoEnabledEffect("coordinator", b)
  /\ CalEnabledEffect("coordinator", b)
  /\ UNCHANGED <<envVars, locVars, chatVars, coVars>>

\* The Coordinator's two pollers switched on and off together, with the
\* polls that enabling starts, record by record.
ToggleNext ==
  \/ \E b \in BOOLEAN : PollersSetEnabled(b)
  \/ \E c \in 1..MaxPhotoCycles : PhotoPermission(c)
  \/ \E c \in 1..MaxPhotoCycles : PhotoGetUser(c)
  \/ \E c \in 1..MaxPhotoCycles : PhotoGetAssets(c)
  \/ \E c \in 1..MaxPhotoCycles : PhotoSelect(c)
  \/ \E c \in 1..MaxPhotoCycles : PhotoLocate(c)
  \/ \E c \in 1..MaxPhotoCycles : PhotoInsert(c)
  \/ \E c \in 1..MaxCalCycles : CalPermission(c)
  \/ \E c \in 1..MaxCalCycles : CalGetUser(c)
  \/ \E c \in 1..MaxCalCycles : CalGetCalendars(c)
  \/ \E c \in 1..MaxCalCycles : CalGetEvents(c)
  \/ \E c \in 1..MaxCalCycles : CalSelect(c)
  \/ \E c \in 1..MaxCalCycles : CalInsert(c)

\* What can run while nobody is signed in.
NoSessionNext ==
  \/ PhotoSetEnabled("coordinator", TRUE)
  \/ \E c \in 1..MaxPhotoCycles : PhotoPermission(c)
  \/ \E c \in 1..MaxPhotoCycles : PhotoGetUser(c)
  \/ CalSetEnabled("coordinator", TRUE)
  \/ \E c \in 1..MaxCalCycles : CalPermission(c)
  \/ \E c \in 1..MaxCalCycles : CalGetUser(c)
  \/ \E p \in 1..MaxLocStarts : LocForegroundSample(p)
  \/ \E body \in {"error", "nodata", "locations"} : LocBackgroundSample(body)
  \/ \E s \in 1..MaxSamples : LocSampleGetUser(s)
  \/ LoadGetSession(1)
  \/ sendStarted < MaxTurns /\ SendPress
  \/ \E t \in 1..MaxSends : SendNetInfo(t)
  \/ \E t \in 1..MaxSends : SendGetSession(t)
  \/ \E c \in DOMAIN cacheCall : CacheGetSession(c)

-----------------------------------------------------------------------------
(* Specifications                                                          *)

\* A subsystem that a specification does not run starts with its
\* permissions undetermined.
PhotoQuiet == PhotoInit /\ photoPerm = "undetermined"
CalQuiet == CalInit /\ calPerm = "undetermined"
LocQuiet == LocInit /\ locFgPerm = "undetermined" /\ locBgPerm = "undetermined"

\* The conversation surface before anything ran, for the specifications of
\* the collectors.
CacheQuiet == CacheInit /\ cacheFile = NoFile /\ remoteMessages = {} /\ SendInit

\* The Coordinator before its component mounts, the user having no row yet.
CoQuiet == CoInit /\ userPref = NoPref

InitPhoto == EnvInit /\ PhotoInit /\ CalQuiet /\ LocQuiet /\ CacheQuiet /\ CoQuiet
SpecPhoto == InitPhoto /\ [][PhotoNext]_vars

InitCalendar == EnvInit /\ PhotoQuiet /\ CalInit /\ LocQuiet /\ CacheQuiet /\ CoQuiet
SpecCalendar == InitCalendar /\ [][CalNext]_vars

\* The life cycle reads neither the session nor the connectivity.
InitLocation ==
  /\ platform \in Platforms /\ session = TRUE /\ connected = TRUE
  /\ PhotoQuiet /\ CalQuiet /\ LocInit /\ CacheQuiet /\ CoQuiet
SpecLocation == InitLocation /\ [][LocNext]_vars

SpecLocCoordinator == InitLocation /\ [][LocCoordinatorNext]_vars

\* LocRunning is a state SpecLocation reaches.
InitLocSample == EnvInit /\ PhotoQuiet /\ CalQuiet /\ LocRunning /\ CacheQuiet /\ CoQuiet
SpecLocSample == InitLocSample /\ [][LocSampleNext]_vars

\* The cache and its sync.
InitCache ==
  /\ platform = "native" /\ session \in BOOLEAN /\ connected \in BOOLEAN
  /\ PhotoQuiet /\ CalQuiet /\ LocQuiet /\ CoQuiet /\ CacheInit /\ SendInit
SpecCache == InitCache /\ [][CacheNext]_vars
SpecLoad == InitCache /\ [][LoadNext]_vars

\* The messages of earlier runs in the order of their timestamps.
EarlierConversation == SortByTimestamp(CHOOSE seq \in Orders(CachedMsgs) : TRUE)

\* Sending, with no row in the remote messages table and no cache file or
\* the whole earlier conversation in it.
InitSend ==
  /\ platform = "native" /\ session \in BOOLEAN /\ connected \in BOOLEAN
  /\ PhotoQuiet /\ CalQuiet /\ LocQuiet /\ CoQuiet /\ CacheInit /\ SendInit
  /\ remoteMessages = {}
  /\ cacheFile \in {NoFile, FileOf(EarlierConversation)}
SpecSend == InitSend /\ [][SendNext]_vars

\* The user has typed or picked something to send, from the first render on.
Typed ==
  /\ now = 3
  /\ input \in Queries \cup {""}
  /\ selectedMedia \in Media \cup {NoMedia}
  /\ ~(input = "" /\ selectedMedia = NoMedia)
  /\ captured = <<>>
  /\ loading = FALSE
  /\ isTyping = FALSE
  /\ sendCall = [t \in 1..MaxSends |-> SendIdle]
  /\ sendStarted = 0

InitRetry ==
  /\ platform = "native" /\ session \in BOOLEAN /\ connected \in BOOLEAN
  /\ PhotoQuiet /\ CalQuiet /\ LocQuiet /\ CoQuiet /\ CacheInit /\ Typed
  /\ remoteMessages = {}
  /\ cacheFile = NoFile
SpecRetry == InitRetry /\ [][RetryNext]_vars

SpecDoublePress == InitRetry /\ [][DoublePressNext]_vars

\* Signed out: one poll of the Coordinator's photo and calendar collectors
\* with their permissions granted, location samples of a running collector,
\* the load of the mount, and one handleSend, whose messages call
\* cacheChatMessages.
InitNoSession ==
  /\ platform = "native" /\ session = FALSE /\ connected \in BOOLEAN
  /\ PhotoInit /\ photoPerm = "granted"
  /\ CalInit /\ calPerm = "granted"
  /\ LocRunning /\ CoQuiet
  /\ CacheInit /\ cacheFile = FileOf(EarlierConversation) /\ remoteMessages = RemoteRows
  /\ Typed /\ input = "hello" /\ selectedMedia = NoMedia
SpecNoSession == InitNoSession /\ [][NoSessionNext]_vars

\* The app comes to the foreground after an offline period: signed in and
\* online again, the messages of the period in memory and in the cache file
\* but not in the remote table, and handleAppStateChange has just called
\* loadCachedMessages() and checkNetworkStatus().
InitSync ==
  /\ platform = "native" /\ session = TRUE /\ connected = TRUE
  /\ PhotoQuiet /\ CalQuiet /\ LocQuiet /\ CoQuiet /\ SendInit
  /\ cacheFile \in {FileOf(list) : list \in CachedHistories \ {<<>>}}
  /\ messages = cacheFile.content
  /\ lastOp = "send"
  /\ remoteMessages \in SUBSET RemoteRows
  /\ chatError = NoError
  /\ isOffline = TRUE
  /\ cacheCall = <<>>
  /\ loadCall = [l \in 1..MaxLoads |->
                   IF l = 1 THEN [pc |-> "session", check |-> "pending"] ELSE LoadIdle]
  /\ loadStarted = 1

\* Every continuation whose await has resolved is run by the event loop.
SpecSync ==
  InitSync /\ [][SyncNext]_vars /\ WF_vars(LoadSteps) /\ WF_vars(CacheSteps)

\* The Coordinator's three collectors before they are enabled, signed in
\* and online on native; each permission is granted or denied.
InitCollectors ==
  /\ platform = "native" /\ session = TRUE /\ connected = TRUE
  /\ PhotoInit /\ photoPerm \in {"granted", "denied"}
  /\ CalInit /\ calPerm \in {"granted", "denied"}
  /\ LocInit /\ locFgPerm \in {"granted", "denied"} /\ locBgPerm = "granted"
  /\ CacheQuiet /\ CoQuiet
SpecCollectors == InitCollectors /\ [][CollectorsNext]_vars

\* The two pollers side by side.
InitPolling ==
  /\ platform \in Platforms /\ session = TRUE /\ connected = TRUE
  /\ PhotoQuiet /\ CalQuiet /\ LocQuiet /\ CacheQuiet /\ CoQuiet
SpecPolling == InitPolling /\ [][PollNext]_vars

\* A cacheChatMessages call that wrote the file and synced the rows.
CacheCallDone(msgs) ==
  [NewCacheCall(msgs) EXCEPT !.pc = "done", !.attempts = 1, !.wrote = "ok",
                             !.written = msgs, !.succeeded = TRUE]

\* The screen after its mount load, signed in and online: the earlier
\* conversation was read from the cache file and merged with the store's
\* rows, and the two cacheChatMessages calls this started are over; 'hello'
\* is typed.
InitForeground ==
  /\ platform = "native" /\ session = TRUE /\ connected = TRUE
  /\ PhotoQuiet /\ CalQuiet /\ LocQuiet /\ CoQuiet
  /\ now = 3 /\ input = "hello" /\ selectedMedia = NoMedia
  /\ captured = EarlierConversation
  /\ loading = FALSE /\ isTyping = FALSE
  /\ sendCall = [t \in 1..MaxSends |-> SendIdle] /\ sendStarted = 0
  /\ messages = EarlierConversation
  /\ lastOp = "merge"
  /\ cacheFile = FileOf(EarlierConversation)
  /\ remoteMessages = Range(EarlierConversation)
  /\ chatError = NoError
  /\ isOffline = FALSE
  /\ cacheCall = <<CacheCallDone(EarlierConversation), CacheCallDone(EarlierConversation)>>
  /\ loadCall = [l \in 1..MaxLoads |->
                   IF l = 1 THEN [pc |-> "done", check |-> "none"] ELSE LoadIdle]
  /\ loadStarted = 1
SpecForeground == InitForeground /\ [][ForegroundNext]_vars

\* The two pollers on native, signed in, both permissions granted before.
InitRecords ==
  /\ platform = "native" /\ session = TRUE /\ connected = TRUE
  /\ PhotoInit /\ photoPerm = "granted" /\ CalInit /\ calPerm = "granted"
  /\ LocQuiet /\ CacheQuiet /\ CoQuiet
SpecRecords == InitRecords /\ [][RecordsNext]_vars

\* The two pollers on native, signed in, one of the two permissions granted
\* and the other denied before.
InitToggle ==
  /\ platform = "native" /\ session = TRUE /\ connected = TRUE
  /\ PhotoInit /\ CalInit
  /\ <<photoPerm, calPerm>> \in {<<"granted", "denied">>, <<"denied", "granted">>}
  /\ LocQuiet /\ CacheQuiet /\ CoQuiet
SpecToggle == InitToggle /\ [][ToggleNext]_vars

\* The two pollers before they are enabled, with the rows that overlapping
\* polls of an earlier run left in photo_logs: two for the first photo, one
\* for the second.
InitDuplicates ==
  /\ platform = "native" /\ session = TRUE /\ connected = TRUE
  /\ photoEnabled = [i \in PhotoInst |-> FALSE]
  /\ photoMounted = [i \in PhotoInst |-> TRUE]
  /\ photoError = [i \in PhotoInst |-> NoError]
  /\ photoTimer = [i \in PhotoInst |-> FALSE]
  /\ photoCycle = [c \in 1..MaxPhotoCycles |-> PhotoIdle]
  /\ photoStarted = 0
  /\ photoPerm = "granted"
  /\ photoLogs = [u \in Uris |-> IF u = "u1" THEN 2 ELSE 1]
  /\ CalInit /\ calPerm = "granted"
  /\ LocQuiet /\ CacheQuiet /\ CoQuiet
SpecDuplicates == InitDuplicates /\ [][RecordsNext]_vars

\* A new user: signed in or not, no row in the users table yet.
InitPreference ==
  /\ platform \in Platforms /\ session \in BOOLEAN /\ connected = TRUE
  /\ PhotoInit /\ CalInit /\ LocInit /\ CacheQuiet /\ CoInit
  /\ userPref = NoPref
SpecPreference == InitPreference /\ [][PreferenceNext]_vars

\* The Coordinator over its three collectors, whose polls are followed up to
\* their reads of the device library and of the calendars.
InitCoordinator ==
  /\ platform \in Platforms /\ session \in BOOLEAN /\ connected = TRUE
  /\ PhotoInit /\ CalInit /\ LocInit /\ CacheQuiet /\ CoInit
SpecCoordinator == InitCoordinator /\ [][CoNext]_vars

-----------------------------------------------------------------------------
(* Claims                                                                  *)

\* C1: for any two poll cycles of the Photo Collector (from any mounted
\* instance) that observe the same asset URI, at most one photo_logs record
\* with that file_uri exists afterward.
C1_AtMostOnePhotoRecordPerUri == \A u \in Uris : photoLogs[u] <= 1

\* C2: for any two poll cycles of the Calendar Collector that observe an
\* event with identical (title, start, end), at most one calendar_events
\* record with that key exists afterward.
C2_AtMostOneEventRecordPerKey == \A key \in EventKeys : calendarEvents[key] <= 1

\* C3: whenever connectivity is false at the time a location sample is
\* delivered, to the background task or to the foreground watcher callback,
\* no insert into the remote locations collection is attempted for it.
C3_OfflineSampleNotInserted ==
  \A s \in 1..MaxSamples : locSample[s].offline => ~locSample[s].insert

LocRefused(p) ==
  IF platform = "web" THEN locStart[p].answer = "denied"
  ELSE locStart[p].answer \in {"denied", "undetermined"}

NonDecreasing(list) ==
  \A m, n \in 1..Len(list) : m < n => list[m].timestamp <= list[n].timestamp

StrictlyAscending(list) ==
  \A m, n \in 1..Len(list) : m < n => list[m].timestamp < list[n].timestamp

C7_ThreeUpsertsThenError ==
  \A c \in DOMAIN cacheCall :
    /\ cacheCall[c].attempts <= MaxUpsertAttempts
    /\ cacheCall[c].succeeded => cacheCall[c].pc = "done"
    /\ (cacheCall[c].pc = "done" /\ cacheCall[c].attempts = MaxUpsertAttempts
          /\ ~cacheCall[c].succeeded) => cacheCall[c].errSet

\* C7 (amended): a cacheChatMessages call issues at most 3 upserts; after a
\* successful one it issues no more; when all 3 failed it has set the error
\* and marked the state offline, unless the third failure was a thrown
\* TypeError 'Network request failed', which is only logged.
C7_ThreeUpsertsThenErrorUnlessNetwork ==
  \A c \in DOMAIN cacheCall :
    /\ cacheCall[c].attempts <= MaxUpsertAttempts
    /\ cacheCall[c].succeeded => cacheCall[c].pc = "done"
    /\ (cacheCall[c].pc = "done" /\ cacheCall[c].attempts = MaxUpsertAttempts
          /\ ~cacheCall[c].succeeded) =>
         (cacheCall[c].errSet <=> cacheCall[c].lastFailure # "network")

C7_Witness ==
  \E c \in DOMAIN cacheCall :
    /\ cacheCall[c].pc = "done" /\ cacheCall[c].attempts = MaxUpsertAttempts
    /\ ~cacheCall[c].succeeded /\ cacheCall[c].errSet
    /\ chatError = SaveFailedMessage /\ isOffline

\* ---- Conversation surface: sending

\* C6: a handleSend call whose chat API requests all failed made exactly
\* MAX_RETRIES + 1 = 4 HTTP requests, and callDeepSeekAPI then let out
\* exactly one exception, surfaced as one error message; no call makes more
\* than 4 requests.
C6_FourAttemptsThenOneError ==
  \A t \in 1..MaxSends :
    /\ sendCall[t].attempts <= MAX_RETRIES + 1
    /\ sendCall[t].thrown <= 1
    /\ (sendCall[t].pc = "done" /\ sendCall[t].attempts >= 1 /\ ~sendCall[t].answered) =>
         /\ sendCall[t].attempts = MAX_RETRIES + 1
         /\ sendCall[t].thrown = 1
         /\ sendCall[t].errors = 1

C6_Witness ==
  \E t \in 1..MaxSends :
    /\ sendCall[t].pc = "done" /\ sendCall[t].attempts = 4 /\ sendCall[t].thrown = 1
    /\ chatError = ApiCallFailed
    /\ messages[Len(messages)].content = "error"

\* C8: an answered handleSend call that had a photo attached and whose vision
\* request gave a description put that description in the prompt, and the
\* photos of the assistant message are exactly the attached photo, whatever
\* the conversation held before.
C8_AttachedPhotoDescribedAndReturned ==
  \A t \in 1..MaxSends :
    (sendCall[t].answered /\ sendCall[t].photos # <<>>
       /\ sendCall[t].analysis = VisionAnalysis) =>
      /\ sendCall[t].description = VisionAnalysis
      /\ sendCall[t].responsePhotos = sendCall[t].photos

\* C9: an answered handleSend call without attachment has as photos of the
\* assistant message the historical photos its query's keywords select,
\* never the photos of an earlier turn.
C9_NoAttachmentKeywordPhotos ==
  \A t \in 1..MaxSends :
    (sendCall[t].answered /\ sendCall[t].photos = <<>>) =>
      sendCall[t].responsePhotos = RelevantPhotos(sendCall[t].dataPhotos, sendCall[t].content)

\* The error effect has run over the collectors' present errors.
CoEffectRanOver(loc, photo, cal) ==
  /\ locError["coordinator"] = loc /\ coSeen.loc = loc
  /\ photoError["coordinator"] = photo /\ coSeen.photo = photo
  /\ calError["coordinator"] = cal /\ coSeen.cal = cal

\* C11: with the Coordinator enabled, the location permission denied and
\* the photo and calendar permissions granted, the Coordinator's combined
\* error equals 'Permission to access location was denied' once the error
\* effect has run over the collectors' errors.
C11_CombinedErrorIsLocationMessage ==
  ( /\ coLife = "mounted" /\ coEnabled
    /\ locFgPerm = "denied" /\ photoPerm = "granted" /\ calPerm = "granted"
    /\ CoEffectRanOver(PermissionDenied, NoError, NoError) )
  => coError = <<PermissionDenied>>

\* C12: when the three collectors' errors have cleared (and the check of
\* the preference never failed), the Coordinator's combined error is null
\* once the error effect has run and has nothing left to run over.
C12_CombinedErrorClears ==
  ( /\ coLife = "mounted" /\ ~coCheck.failed
    /\ CoEffectRanOver(NoError, NoError, NoError)
    /\ coSeen = CoDeps )
  => coError = <<>>

\* What a step may do to the Coordinator's enabled flag.
CoEnabledStep ==
  /\ coSets' \in {coSets, coSets + 1}
  /\ coSets' <= 1
  /\ coSets' = coSets => coEnabled' = coEnabled
  /\ coSets' = coSets + 1 =>
       /\ userPref'.exists
       /\ coEnabled' = userPref'.background_logging
  /\ (~userPref.exists /\ userPref'.exists) =>
       /\ userPref' = PrefOf(FALSE)
       /\ ~coEnabled'
  /\ coCheck'.failed => ~coEnabled'
  /\ (userPref.exists /\ userPref' # userPref) => coEnabled' = coEnabled

\* C13: the Coordinator's enabled flag is false initially and is set at most
\* once per mount, to the persisted background_logging; an absent row is
\* created with background_logging false and enabled stays false; after a
\* failed read or insert enabled is false; a later change of the persisted
\* preference does not change enabled.
C13_EnabledLoadedOnce == (~coEnabled /\ coSets = 0) /\ [][CoEnabledStep]_vars

\* enabled was loaded as true and the preference was switched off afterwards.
C13_Witness == coSets = 1 /\ coEnabled /\ userPref = PrefOf(FALSE)

\* No startLocationTracking or stopLocationTracking call of instance i is
\* in flight.
LocSettled(i) ==
  /\ \A p \in 1..MaxLocStarts :
       locStart[p].inst = i => locStart[p].pc \in {"idle", "done"}
  /\ \A q \in 1..MaxLocStops :
       locStop[q].inst = i => locStop[q].pc \in {"idle", "done"}

\* C14: after the Location Collector has been disabled and all its pending
\* asynchronous steps have finished, no foreground subscription is active,
\* the background task is not registered and the error is null, for every
\* interleaving of a running start with the stop.
C14_DisabledLeavesNothingRunning ==
  ( /\ IsMounted("coordinator")
    /\ ~locEnabled["coordinator"]
    /\ LocSettled("coordinator") )
  => /\ locSubRef["coordinator"] = 0
     /\ locWatching = {}
     /\ ~bgRegistered
     /\ locError["coordinator"] = NoError

\* C15: after the component that owns the Coordinator and its three
\* collectors is torn down, no step changes the error of a collector or the
\* error or enabled of the Coordinator.
C15_NoStateChangeAfterTeardown ==
  [][ coLife = "unmounted" =>
        /\ coEnabled' = coEnabled
        /\ coError' = coError
        /\ locError'["coordinator"] = locError["coordinator"]
        /\ photoError'["coordinator"] = photoError["coordinator"]
        /\ calError'["coordinator"] = calError["coordinator"] ]_vars

\* A poll cycle of instance i starts in this step.
PhotoStarts(i) ==
  photoStarted' = photoStarted + 1 /\ photoCycle'[photoStarted'].inst = i
CalStarts(i) ==
  calStarted' = calStarted + 1 /\ calCycle'[calStarted'].inst = i

\* What a step may do to the polls of the photo instance i: a cycle starts
\* only for a mounted instance that is enabled after the step; enabling
\* starts one cycle at once and sets the interval; the interval stays set
\* exactly while the instance is mounted and enabled, and a step starts at
\* most one cycle.
PhotoPollStep(i) ==
  /\ photoStarted' \in {photoStarted, photoStarted + 1}
  /\ PhotoStarts(i) => photoMounted'[i] /\ photoEnabled'[i]
  /\ (~photoEnabled[i] /\ photoEnabled'[i]) => PhotoStarts(i)
  /\ (PhotoStarts(i) /\ photoEnabled[i]) => photoTimer[i]
  /\ photoTimer'[i] <=> (photoMounted'[i] /\ photoEnabled'[i])

CalPollStep(i) ==
  /\ calStarted' \in {calStarted, calStarted + 1}
  /\ CalStarts(i) => calMounted'[i] /\ calEnabled'[i]
  /\ (~calEnabled[i] /\ calEnabled'[i]) => CalStarts(i)
  /\ (CalStarts(i) /\ calEnabled[i]) => calTimer[i]
  /\ calTimer'[i] <=> (calMounted'[i] /\ calEnabled'[i])

\* C16: after the Photo or Calendar Collector is disabled or its component
\* is torn down no new poll cycle of that instance starts; while enabled,
\* one poll starts immediately and one per tick of the interval.
C16_PollsOnlyWhileEnabled ==
  [][ /\ \A i \in PhotoInst : PhotoPollStep(i)
      /\ \A i \in CalInst : CalPollStep(i) ]_vars

\* The Settings screen's photo poller was disabled after its immediate poll
\* and a poll of the interval, and its calendar poller torn down after the
\* same.
C16_Witness ==
  /\ photoStarted >= 2
  /\ photoCycle[1].inst = "settings" /\ photoCycle[2].inst = "settings"
  /\ ~photoEnabled["settings"] /\ photoMounted["settings"]
  /\ calStarted >= 2
  /\ calCycle[1].inst = "settings" /\ calCycle[2].inst = "settings"
  /\ calEnabled["settings"] /\ ~calMounted["settings"]

\* C17: with nobody signed in, a photo poll and a calendar poll with their
\* permissions granted, a foreground and a background location sample, a
\* cache write and a cache load each end without a read or write of the
\* remote store and without setting an error.
C17_NoSessionEndsSilently ==
  ~session =>
    /\ \A c \in 1..MaxPhotoCycles : photoCycle[c].pc \in {"idle", "perm", "user", "done"}
    /\ \A u \in Uris : photoLogs[u] = 0
    /\ \A i \in PhotoInst : photoError[i] = NoError
    /\ \A c \in 1..MaxCalCycles : calCycle[c].pc \in {"idle", "perm", "user", "done"}
    /\ \A k \in EventKeys : calendarEvents[k] = 0
    /\ \A i \in CalInst : calError[i] = NoError
    /\ \A s \in 1..MaxSamples :
         locSample[s].pc \in {"idle", "user", "done"} /\ ~locSample[s].insert
    /\ locations = 0
    /\ \A i \in LocInst : locError[i] = NoError
    /\ \A l \in 1..MaxLoads : loadCall[l].pc \in {"idle", "session", "done"}
    /\ lastOp \notin {"cached", "merge"}
    /\ \A c \in DOMAIN cacheCall :
         /\ cacheCall[c].pc \in {"session", "done"}
         /\ cacheCall[c].attempts = 0
         /\ ~cacheCall[c].errSet
    /\ remoteMessages = RemoteRows
    /\ chatError \notin {SaveFailedMessage, LoadFailedMessage}

\* Signed out and online, all of them have ended: the two polls, a
\* foreground and a background sample, the load and a cache write.
C17_Witness ==
  /\ ~session /\ connected
  /\ photoCycle[1].pc = "done" /\ calCycle[1].pc = "done"
  /\ \E s \in 1..MaxSamples : locSample[s].kind = "foreground" /\ locSample[s].pc = "done"
  /\ \E s \in 1..MaxSamples : locSample[s].kind = "background" /\ locSample[s].pc = "done"
  /\ loadCall[1].pc = "done"
  /\ Len(cacheCall) > 0 /\ cacheCall[1].pc = "done"

\* C18: a handleSend that finds nobody signed in ends silently: no error
\* message is appended to the conversation and no error state is set.
C18_NoSessionSendSilent ==
  ~session =>
    /\ \A t \in 1..MaxSends : sendCall[t].errors = 0
    /\ chatError # NotAuthenticated
    /\ \A k \in 1..Len(messages) : messages[k].content # "error"

\* A loadCachedMessages call merges the rows it fetched into memory.
MergeStep ==
  \E l \in 1..MaxLoads :
    loadCall[l].pc = "fetch" /\ loadCall'[l].pc = "done" /\ lastOp' = "merge"

\* C20: when the merge finds an id both in memory and among the fetched
\* rows, with different content, the merged list keeps the local copy and
\* holds no other message of that id.
C20_LocalCopyWins ==
  [][ MergeStep =>
        \A k \in 1..Len(messages) :
          (\E r \in remoteMessages : r.id = messages[k].id /\ r # messages[k]) =>
             /\ \E j \in 1..Len(messages') : messages'[j] = messages[k]
             /\ \A j \in 1..Len(messages') :
                  messages'[j].id = messages[k].id => messages'[j] = messages[k] ]_vars

\* A merge kept the cached answer 'at home' although the remote table holds
\* a row of the same id with the content 'reacted'.
C20_Witness ==
  /\ lastOp = "merge"
  /\ \E k \in 1..Len(messages) :
       /\ messages[k].content = "at home"
       /\ \E r \in remoteMessages : r.id = messages[k].id /\ r.content = "reacted"

\* The messages of the cache file are in memory and in the remote table.
Synced ==
  /\ messages # <<>>
  /\ Range(cacheFile.content) \subseteq Range(messages)
  /\ Range(messages) \subseteq remoteMessages

\* A cacheChatMessages call gave up: the store refused its three upserts.
StoreRefused ==
  \E c \in DOMAIN cacheCall :
    /\ cacheCall[c].pc = "done"
    /\ ~cacheCall[c].succeeded
    /\ cacheCall[c].retryCount = MaxUpsertAttempts

\* C19: after the app came to the foreground online and signed in, with
\* messages written to the local cache while offline, the cached messages
\* are in memory and end up upserted to the remote table with at most three
\* upserts per call and no user action, unless the store refused the three
\* upserts of a call.
C19_CachedMessagesSynced ==
  /\ [](\A c \in DOMAIN cacheCall : cacheCall[c].attempts <= MaxUpsertAttempts)
  /\ <>[](StoreRefused \/ Synced)

\* The messages are synced by a call whose third upsert was accepted.
C19_Witness ==
  /\ Synced
  /\ \E c \in DOMAIN cacheCall : cacheCall[c].succeeded /\ cacheCall[c].attempts = MaxUpsertAttempts

PhotoDenied == "Permission to access photos was denied"

\* C21: after a request for the photo permission has been denied, no poll
\* issues another request for it.
C21_NoRequestAfterDenial ==
  [][ (photoPerm = "denied" /\ \E i \in PhotoInst : photoError[i] = PhotoDenied) =>
        \A c \in 1..MaxPhotoCycles :
          photoCycle'[c].pc = "perm" => photoCycle[c].pc = "perm" ]_vars

\* The handleSend call t finishes in this step, all its chat API requests
\* having failed.
FinishesFailed(t) ==
  /\ sendCall[t].pc # "done" /\ sendCall'[t].pc = "done"
  /\ sendCall'[t].attempts >= 1 /\ ~sendCall'[t].answered

\* C22: when every chat API request of a turn failed, handleSend finishes
\* by appending one system message flagged as an error (the only one of the
\* turn) and no assistant message, with the error state set and loading and
\* isTyping false.
C22_FailedTurnEndsWithOneError ==
  [][ \A t \in 1..MaxSends :
        FinishesFailed(t) =>
          /\ Len(messages') = Len(messages) + 1
          /\ SubSeq(messages', 1, Len(messages)) = messages
          /\ messages'[Len(messages')].type = "system"
          /\ messages'[Len(messages')].content = "error"
          /\ sendCall'[t].errors = 1
          /\ chatError' # NoError
          /\ ~loading' /\ ~isTyping' ]_vars

\* A turn with a photo attached has finished after four failed requests:
\* the conversation holds its error message and no assistant message.
C22_Witness ==
  \E t \in 1..MaxSends :
    /\ sendCall[t].pc = "done" /\ ~sendCall[t].answered
    /\ sendCall[t].attempts = MAX_RETRIES + 1 /\ sendCall[t].photos # <<>>
    /\ sendCall[t].errors = 1 /\ chatError # NoError
    /\ ~loading /\ ~isTyping
    /\ \A k \in 1..Len(messages) : messages[k].type # "assistant"

\* NetInfo answers the handleSend call t while connectivity is false.
AnsweredOffline(t) ==
  sendCall[t].pc = "netinfo" /\ sendCall'[t].pc # "netinfo" /\ ~connected

\* C23: a handleSend call that finds connectivity false ends there: no
\* message is appended, no cacheChatMessages call, store read, vision or
\* chat request follows, and of the state only the error and the offline
\* flag are set.
C23_OfflineSendOnlySetsFlags ==
  [][ \A t \in 1..MaxSends :
        AnsweredOffline(t) =>
          /\ sendCall'[t] = [sendCall[t] EXCEPT !.pc = "done"]
          /\ sendCall[t].attempts = 0 /\ sendCall[t].content = ""
          /\ chatError' = OfflineMessage /\ isOffline'
          /\ UNCHANGED <<messages, cacheCall, remoteMessages, cacheFile, input,
                         selectedMedia, loading, isTyping, captured>> ]_vars

\* An offline handleSend has ended with nothing in the conversation.
C23_Witness ==
  \E t \in 1..MaxSends :
    /\ sendCall[t].pc = "done" /\ sendCall[t].content = ""
    /\ ~connected /\ isOffline /\ chatError = OfflineMessage
    /\ messages = <<>> /\ cacheCall = <<>>

\* C24: the in-memory message list never holds two messages of the same
\* id.
C24_MessageIdsUnique == UniqueIds(messages)

\* C25: a step in which one collector's error changes (a refused
\* permission, a failed read or write) changes nothing of the other two
\* collectors: their errors, timers, polls, samples and records stay as
\* they are, so they go on as their own permissions allow.
C25_ErrorsStayInTheirCollector ==
  [][ /\ photoError' # photoError => UNCHANGED <<calVars, locVars>>
      /\ calError' # calError => UNCHANGED <<photoVars, locVars>>
      /\ locError' # locError => UNCHANGED <<photoVars, calVars>> ]_vars

\* The photo permission was refused, and after that the calendar poll wrote
\* its events and a location sample was written.
C25_Witness ==
  /\ photoError["coordinator"] = PhotoDenied
  /\ calError["coordinator"] = NoError /\ locError["coordinator"] = NoError
  /\ \E k \in EventKeys : calendarEvents[k] > 0
  /\ calCycle[1].pc = "done"
  /\ locations > 0

\* A foreground sample ends in this step, after its geocoding or its insert.
SampleEnds(s) ==
  /\ locSample[s].kind = "foreground"
  /\ locSample[s].pc \in {"geocode", "insert"}
  /\ locSample'[s].pc = "done"

\* C26: a foreground sample whose geocoding or insert throws sets the error
\* 'Failed to save location data' and nothing else: the subscription, the
\* background registration, the start and stop calls and the other samples
\* are as before, so later samples are still delivered and processed.
C26_FailedSampleOnlySetsError ==
  [][ \A s \in 1..MaxSamples : SampleEnds(s) =>
        /\ UNCHANGED <<locSubRef, locWatching, bgRegistered, locStart, locStop,
                       locSampled, locLife, locEnabled>>
        /\ \A t \in 1..MaxSamples \ {s} : locSample'[t] = locSample[t]
        /\ locSample[s].pc = "geocode" =>
             locError' = [locError EXCEPT ![locSample[s].inst] = SaveFailed]
        /\ locSample[s].pc = "insert" =>
             \/ locations' = locations + 1 /\ UNCHANGED locError
             \/ /\ UNCHANGED locations
                /\ locError' \in {locError,
                                  [locError EXCEPT ![locSample[s].inst] = SaveFailed]} ]_vars

\* The first sample failed in geocoding and set the error; the second was
\* stored all the same, with the watcher still subscribed.
C26_Witness ==
  /\ locSample[1].kind = "foreground" /\ locSample[1].pc = "done"
  /\ ~locSample[1].insert /\ session
  /\ locError["coordinator"] = SaveFailed
  /\ locSample[2].kind = "foreground" /\ locSample[2].pc = "done"
  /\ locSample[2].insert /\ locations = 1
  /\ locWatching # {} /\ bgRegistered

\* The lookup or the insert of the record a photo poll is at fails in this
\* step: the poll ends at that record.
PhotoRecordFails(c) ==
  /\ photoCycle[c].pc \in {"select", "insert"}
  /\ photoCycle'[c].pc = "done"
  /\ photoCycle'[c].k = photoCycle[c].k

\* The same for a calendar poll.
CalRecordFails(c) ==
  /\ calCycle[c].pc \in {"select", "insert"}
  /\ calCycle'[c].pc = "done"
  /\ calCycle'[c].ci = calCycle[c].ci /\ calCycle'[c].k = calCycle[c].k

\* C27: when the lookup or the insert of a record fails in a photo or a
\* calendar poll, the rows written so far stay, the collector's error is set
\* and its timer stays set; the poll, being over, attempts no further record;
\* no step ever removes a row.
C27_FailedRecordEndsPollOnly ==
  [][ /\ \A c \in 1..MaxPhotoCycles : PhotoRecordFails(c) =>
            /\ photoLogs' = photoLogs
            /\ photoError'[photoCycle[c].inst] # NoError
            /\ UNCHANGED <<photoTimer, photoEnabled, photoStarted>>
      /\ \A c \in 1..MaxCalCycles : CalRecordFails(c) =>
            /\ calendarEvents' = calendarEvents
            /\ calError'[calCycle[c].inst] # NoError
            /\ UNCHANGED <<calTimer, calEnabled, calStarted>>
      /\ \A c \in 1..MaxPhotoCycles :
            photoCycle[c].pc = "done" => photoCycle'[c] = photoCycle[c]
      /\ \A c \in 1..MaxCalCycles :
            calCycle[c].pc = "done" => calCycle'[c] = calCycle[c]
      /\ \A u \in Uris : photoLogs'[u] >= photoLogs[u]
      /\ \A k \in EventKeys : calendarEvents'[k] >= calendarEvents[k]
      /\ photoEnabled'["coordinator"] => photoTimer'["coordinator"]
      /\ calEnabled'["coordinator"] => calTimer'["coordinator"] ]_vars

\* The first photo poll wrote the first photo and failed at the second, and
\* the timer has started the next poll.
C27_Witness ==
  /\ photoCycle[1].pc = "done" /\ photoCycle[1].k = 2
  /\ photoLogs["u1"] = 1 /\ photoLogs["u2"] = 0
  /\ photoError["coordinator"] = "Failed to sync photos"
  /\ photoCycle[2].pc = "perm"

\* C28: whatever the image read and the vision request answer, the turn
\* goes on to the context fetch: when they fail the description is the
\* fallback text, no message is appended and the error state is untouched;
\* loading and the typing indicator stay set.
C28_VisionFailureDoesNotAbort ==
  [][ \A t \in 1..MaxSends :
        sendCall[t].pc = "vision" /\ sendCall'[t].pc # "vision" =>
          /\ sendCall'[t].pc = "context"
          /\ sendCall'[t].analysis \in {VisionAnalysis, VisionFailed}
          /\ sendCall'[t].analysis = VisionFailed => messages' = messages
          /\ Len(messages') <= Len(messages)
          /\ UNCHANGED <<chatError, loading, isTyping>> ]_vars

\* A turn whose vision call failed was answered by the chat API, and no
\* error message was appended.
C28_Witness ==
  \E t \in 1..MaxSends :
    /\ sendCall[t].analysis = VisionFailed
    /\ sendCall[t].pc = "done" /\ sendCall[t].answered /\ sendCall[t].errors = 0
    /\ chatError = NoError
    /\ \E k \in 1..Len(messages) : messages[k].type = "assistant"
    /\ \A k \in 1..Len(messages) : messages[k].content # "error"

\* C29: once the vision call of a turn has succeeded, the list holds no
\* 'Analyzing your photo...' message.
C29_AnalyzingMessageRemoved ==
  (\E t \in 1..MaxSends : sendCall[t].analysis = VisionAnalysis) =>
    \A k \in 1..Len(messages) : messages[k].content # "analyzing"

\* C30: a connectivity event that reports the device back online while an
\* error is shown clears the error.
C30_BackOnlineClearsError ==
  [][ ~connected /\ connected' /\ chatError # NoError => chatError' = NoError ]_vars

\* C31: once every cacheChatMessages call is over, each having written the
\* file, the cache file holds the in-memory list.
C31_FileHoldsLatestList ==
  ( /\ cacheCall # <<>>
    /\ \A c \in DOMAIN cacheCall : cacheCall[c].pc = "done" /\ cacheCall[c].wrote = "ok" )
  => cacheFile = FileOf(messages)

\* C32: a load that puts the cache file's list in memory removes no message
\* that a turn of this run appended.
C32_LoadKeepsTurnMessages ==
  [][ lastOp' = "cached" =>
        \A k \in 1..Len(messages) :
          messages[k].id.at >= 3 => messages[k].id \in Ids(messages') ]_vars

\* C33: the combined error never holds a collector's message twice (as it
\* must not if the error effect settles with each message in it once).
C33_EachMessageOnce ==
  \A m, n \in 1..Len(coError) : coError[m] = coError[n] => m = n

\* A stop call or an unmount cleanup of the Settings screen's instance
\* takes a step.
SettingsStopStep ==
  \E q \in 1..MaxLocStops :
    /\ locStop[q].inst = "settings" /\ locStop[q].pc \notin {"idle", "done"}
    /\ locStop'[q] # locStop[q]

\* C34: while the Coordinator's instance is enabled with the background task
\* registered, no step of the stop calls of the Settings screen's instance,
\* which is not enabled, unregisters the task.
C34_SettingsInstanceLeavesTask ==
  [][ ( /\ locEnabled["coordinator"] /\ locLife["coordinator"] = "mounted"
        /\ ~locEnabled["settings"]
        /\ bgRegistered
        /\ SettingsStopStep ) => bgRegistered' ]_vars

\* C35: no Location Collector instance has more than one foreground position
\* subscription active.
C35_OneSubscriptionPerInstance ==
  \A i \in LocInst : Cardinality({p \in locWatching : locStart[p].inst = i}) <= 1

\* What a step appended to the list, when it only appended.
Appended == SubSeq(messages', Len(messages) + 1, Len(messages'))
OnlyAppends ==
  /\ Len(messages') >= Len(messages)
  /\ SubSeq(messages', 1, Len(messages)) = messages

\* An assistant message or an error message.
IsTerminal(m) == m.type = "assistant" \/ (m.type = "system" /\ m.content = "error")

\* C36: a turn that passed the connectivity check appends one user message
\* at that point; its step that ends it appends exactly one message, the
\* assistant message when the completion call was answered and the error
\* message otherwise; its other steps append neither.
C36_OneUserOneTerminalMessage ==
  [][ \A t \in 1..MaxSends :
        /\ (sendCall[t].pc = "netinfo" /\ sendCall'[t].pc = "session") =>
             /\ OnlyAppends /\ Len(Appended) = 1
             /\ Appended[1].type = "user"
        /\ (sendCall[t].pc \in {"session", "vision", "context", "http", "delay"}
              /\ sendCall'[t].pc = "done") =>
             /\ OnlyAppends /\ Len(Appended) = 1
             /\ IsTerminal(Appended[1])
             /\ Appended[1].type = "assistant" <=> sendCall'[t].answered
             /\ sendCall'[t].errors = IF sendCall'[t].answered THEN 0 ELSE 1
        /\ (sendCall[t].pc \in {"session", "vision", "context", "http", "delay"}
              /\ sendCall'[t] # sendCall[t] /\ sendCall'[t].pc # "done") =>
             /\ \A k \in 1..Len(messages') :
                  IsTerminal(messages'[k]) => messages'[k] \in Range(messages)
             /\ sendCall'[t].errors = 0 /\ ~sendCall'[t].answered ]_vars

\* A turn was answered at its second attempt: the list holds its user
\* message and the assistant message, and no error message.
C36_Witness ==
  \E t \in 1..MaxSends :
    /\ sendCall[t].pc = "done" /\ sendCall[t].answered /\ sendCall[t].attempts = 2
    /\ Len(messages) = 2
    /\ messages[1].type = "user" /\ messages[2].type = "assistant"

\* C37: an error that a photo or calendar collector instance has set is
\* never reset to null by a later step.
C37_ErrorNeverReset ==
  [][ /\ \A i \in PhotoInst : photoError[i] # NoError => photoError'[i] # NoError
      /\ \A i \in CalInst : calError[i] # NoError => calError'[i] # NoError ]_vars

\* The first photo poll failed at its first record; after a disable and a
\* re-enable the second poll wrote every photo, and the error is still set.
C37_Witness ==
  /\ photoCycle[1].pc = "done" /\ photoCycle[1].k = 1
  /\ photoCycle[2].pc = "done" /\ photoCycle[2].k = Len(PhotoPage) + 1
  /\ \A u \in Uris : photoLogs[u] = 1
  /\ photoEnabled["coordinator"]
  /\ photoError["coordinator"] = "Failed to sync photos"
  /\ calError["coordinator"] # NoError

\* C38: with the user's row created meanwhile by the other reader, the
\* insert of a reader that found no row does not end in that reader's
\* error.
C38_SecondInsertReportsNoError ==
  [][ /\ (coCheck.pc = "insert" /\ coCheck'.pc = "done" /\ userPref.exists)
         => ~coCheck'.failed
      /\ (settingsLoad.pc = "insert" /\ settingsLoad'.pc = "done" /\ userPref.exists)
         => ~settingsLoad'.failed ]_vars

\* C39: once photo_logs holds a row for a file_uri, no step adds another
\* row for it.
C39_NoFurtherRowForLoggedPhoto ==
  [][ \A u \in Uris : photoLogs[u] >= 1 => photoLogs'[u] = photoLogs[u] ]_vars

=============================================================================
